---- MODULE Spec2Model ----
(***************************************************************************)
(* Behavioural model of the 4-bit load/store processor of                  *)
(* simulator_gui.py and simulator_gui_enhanced.py: the gate-level ALU      *)
(* (XOR_1b, FA_1b, Adder_4b, ALU_4b) and the Processor object with its     *)
(* five-state control FSM, its memory and its per-cycle waveform history.  *)
(*                                                                         *)
(* A Processor object is a record whose fields carry the names of the      *)
(* Python attributes.  A method is an operator from the object before the  *)
(* call to the object after it; clock_cycle and run_program, which return  *)
(* a value or raise, yield [self |-> object after, ret |-> outcome].       *)
(***************************************************************************)
EXTENDS Integers, Sequences, FiniteSets, TLC

VARIABLES proc,      \* the Processor object of simulator_gui.py
          enh,       \* the Processor object of simulator_gui_enhanced.py
          op,        \* the method called last on both objects
          arg,       \* its argument: the program of load_program, <<max_cycles>>
                     \* of run_program, <<>> otherwise
          ret,       \* what that call returned on proc
          ret_enh,   \* what that call returned on enh
          nsteps,    \* clock_cycle calls made since the last reset()
          nloads,    \* load_program calls the caller made: since its last
                     \* reset() call in Spec and SpecRun, since the
                     \* construction of the GUI in SpecGui
          gui,       \* the ProcessorSimulatorGUI of simulator_gui.py: its
                     \* animation_running flag and the callbacks it handed
                     \* to root.after that have not run yet
          gui_enh    \* the same of the GUI of simulator_gui_enhanced.py

vars == <<proc, enh, op, arg, ret, ret_enh, nsteps, nloads, gui, gui_enh>>

(***************************************************************************)
(* Bounds of the model.                                                    *)
(***************************************************************************)
\* clock_cycle is not called on an object whose cycle counter reached this,
\* and run_program is called with max_cycles up to this
MaxCycles == 10
\* the Programs handed to load_program include the first MaxProgLen
\* instructions of the default program
MaxProgLen == 2
\* load_program is called at most this often between two reset() calls, and
\* by the GUI altogether
MaxLoads == 2
\* StepCycle does not step an object whose cycle counter reached this: the
\* default program takes 1 + 4 * 5 + 1 = 22 calls from INIT to the halt, a
\* program of MaxLongLen instructions 4 * MaxLongLen + 2
MaxGuiCycles == 70
\* instructions of the longest program of SpecLong
MaxLongLen == 17
\* the operands typed into the assembly editor are 0..MaxOperand
MaxOperand == 16
\* a button or a timer callback of the animation specifications calls
\* clock_cycle only on a processor whose cycle counter is below this
MaxAnimCycles == 8
\* RUN and TEST are not pressed while this many callbacks wait in root.after
MaxAfter == 2

(***************************************************************************)
(* Bit-level helpers: Python's >>, & 1, <<, &, | and ~ on 4-bit operands.  *)
(***************************************************************************)
Pow2(i) == IF i = 0 THEN 1 ELSE IF i = 1 THEN 2 ELSE IF i = 2 THEN 4 ELSE 8

\* (x >> i) & 1
Bit(x, i) == (x \div Pow2(i)) % 2

\* result = 0; result |= (bit_i << i) for i in range(4)
FromBits(b0, b1, b2, b3) == b0 + 2 * b1 + 4 * b2 + 8 * b3

\* native a & b on 4-bit operands
BitAnd(a, b) ==
    FromBits(Bit(a, 0) * Bit(b, 0), Bit(a, 1) * Bit(b, 1),
             Bit(a, 2) * Bit(b, 2), Bit(a, 3) * Bit(b, 3))

\* native a | b on 4-bit operands
BitOr(a, b) ==
    LET o(x, y) == IF x + y >= 1 THEN 1 ELSE 0
    IN  FromBits(o(Bit(a, 0), Bit(b, 0)), o(Bit(a, 1), Bit(b, 1)),
                 o(Bit(a, 2), Bit(b, 2)), o(Bit(a, 3), Bit(b, 3)))

\* (~x) & 0xF
Not4(x) == 15 - (x % 16)

(***************************************************************************)
(* XOR_1b, FA_1b, Adder_4b, ALU_4b.  A bit is 0 or 1; Python's truthiness  *)
(* makes 1/True and 0/False interchangeable in these expressions.          *)
(***************************************************************************)
\* faulty variant of XOR_1b.compute: return a or b
XOR_1b_compute_or(a, b) ==
    IF a = 1 \/ b = 1 THEN 1 ELSE 0

\* faulty variant of XOR_1b.compute: return a and not b
XOR_1b_compute_half(a, b) ==
    IF a = 1 /\ ~(b = 1) THEN 1 ELSE 0

\* return (a and not b) or (not a and b)
XOR_1b_compute(a, b) ==
    IF (a = 1 /\ ~(b = 1)) \/ (~(a = 1) /\ b = 1) THEN 1 ELSE 0

\* faulty variant of FA_1b.compute: cout = a and b, the carry-in is not
\* propagated
FA_1b_compute_nocin(a, b, cin) ==
    LET xor_ab == XOR_1b_compute(a, b)
        s      == XOR_1b_compute(xor_ab, cin)
        cout   == IF a = 1 /\ b = 1 THEN 1 ELSE 0
    IN  <<s, cout>>

\* faulty variant of FA_1b.compute: cout = (a and b) or cin
FA_1b_compute_cin(a, b, cin) ==
    LET xor_ab == XOR_1b_compute(a, b)
        s      == XOR_1b_compute(xor_ab, cin)
        cout   == IF (a = 1 /\ b = 1) \/ cin = 1 THEN 1 ELSE 0
    IN  <<s, cout>>

\* xor_ab = XOR(a, b); s = XOR(xor_ab, cin); cout = (a and b) or (cin and xor_ab)
FA_1b_compute(a, b, cin) ==
    LET xor_ab == XOR_1b_compute(a, b)
        s      == XOR_1b_compute(xor_ab, cin)
        cout   == IF (a = 1 /\ b = 1) \/ (cin = 1 /\ xor_ab = 1) THEN 1 ELSE 0
    IN  <<s, cout>>

\* faulty variant of Adder_4b.compute: the carry of bit 3 is kept as bit 4 of
\* the sum
Adder_4b_compute_bit4(a, b, cin) ==
    LET f0 == FA_1b_compute(Bit(a, 0), Bit(b, 0), IF cin THEN 1 ELSE 0)
        f1 == FA_1b_compute(Bit(a, 1), Bit(b, 1), f0[2])
        f2 == FA_1b_compute(Bit(a, 2), Bit(b, 2), f1[2])
        f3 == FA_1b_compute(Bit(a, 3), Bit(b, 3), f2[2])
    IN  <<FromBits(f0[1], f1[1], f2[1], f3[1]) + 16 * f3[2], f3[2] = 1>>

\* faulty variant of Adder_4b.compute: the carry of bit 1 is not handed to
\* bit 2
Adder_4b_compute_cut(a, b, cin) ==
    LET f0 == FA_1b_compute(Bit(a, 0), Bit(b, 0), IF cin THEN 1 ELSE 0)
        f1 == FA_1b_compute(Bit(a, 1), Bit(b, 1), f0[2])
        f2 == FA_1b_compute(Bit(a, 2), Bit(b, 2), 0)
        f3 == FA_1b_compute(Bit(a, 3), Bit(b, 3), f2[2])
    IN  <<FromBits(f0[1], f1[1], f2[1], f3[1]) % 16, f3[2] = 1>>

\* the four chained full adders, carry rippling from bit 0 to bit 3
Adder_4b_compute(a, b, cin) ==
    LET f0 == FA_1b_compute(Bit(a, 0), Bit(b, 0), IF cin THEN 1 ELSE 0)
        f1 == FA_1b_compute(Bit(a, 1), Bit(b, 1), f0[2])
        f2 == FA_1b_compute(Bit(a, 2), Bit(b, 2), f1[2])
        f3 == FA_1b_compute(Bit(a, 3), Bit(b, 3), f2[2])
    IN  <<FromBits(f0[1], f1[1], f2[1], f3[1]) % 16, f3[2] = 1>>

\* faulty variant of ALU_4b.compute: SUB hands the caller's carry-in to the
\* adder instead of True
ALU_4b_compute_sub_cin(a0, b0, s0, cin) ==
    LET a == a0 % 16
        b == b0 % 16
        s == s0 % 8
    IN  CASE s = 0 -> <<a, FALSE>>
          [] s = 1 -> Adder_4b_compute(a, b, cin)
          [] s = 2 -> Adder_4b_compute(a, Not4(b), cin)
          [] s = 3 -> <<BitAnd(a, b), FALSE>>
          [] s = 4 -> <<BitOr(a, b), FALSE>>
          [] s = 5 -> <<FromBits(XOR_1b_compute(Bit(a, 0), Bit(b, 0)),
                                 XOR_1b_compute(Bit(a, 1), Bit(b, 1)),
                                 XOR_1b_compute(Bit(a, 2), Bit(b, 2)),
                                 XOR_1b_compute(Bit(a, 3), Bit(b, 3))), FALSE>>
          [] s = 6 -> <<Not4(a), FALSE>>
          [] OTHER -> <<0, FALSE>>

\* faulty variant of ALU_4b.compute: ADD calls the adder with carry-in False
ALU_4b_compute_add_nocin(a0, b0, s0, cin) ==
    LET a == a0 % 16
        b == b0 % 16
        s == s0 % 8
    IN  CASE s = 0 -> <<a, FALSE>>
          [] s = 1 -> Adder_4b_compute(a, b, FALSE)
          [] s = 2 -> Adder_4b_compute(a, Not4(b), TRUE)
          [] s = 3 -> <<BitAnd(a, b), FALSE>>
          [] s = 4 -> <<BitOr(a, b), FALSE>>
          [] s = 5 -> <<FromBits(XOR_1b_compute(Bit(a, 0), Bit(b, 0)),
                                 XOR_1b_compute(Bit(a, 1), Bit(b, 1)),
                                 XOR_1b_compute(Bit(a, 2), Bit(b, 2)),
                                 XOR_1b_compute(Bit(a, 3), Bit(b, 3))), FALSE>>
          [] s = 6 -> <<Not4(a), FALSE>>
          [] OTHER -> <<0, FALSE>>

\* faulty variant of ALU_4b.compute: the unused select code transfers a, as
\* select 000 does
ALU_4b_compute_else_a(a0, b0, s0, cin) ==
    LET a == a0 % 16
        b == b0 % 16
        s == s0 % 8
    IN  CASE s = 0 -> <<a, FALSE>>
          [] s = 1 -> Adder_4b_compute(a, b, cin)
          [] s = 2 -> Adder_4b_compute(a, Not4(b), TRUE)
          [] s = 3 -> <<BitAnd(a, b), FALSE>>
          [] s = 4 -> <<BitOr(a, b), FALSE>>
          [] s = 5 -> <<FromBits(XOR_1b_compute(Bit(a, 0), Bit(b, 0)),
                                 XOR_1b_compute(Bit(a, 1), Bit(b, 1)),
                                 XOR_1b_compute(Bit(a, 2), Bit(b, 2)),
                                 XOR_1b_compute(Bit(a, 3), Bit(b, 3))), FALSE>>
          [] s = 6 -> <<Not4(a), FALSE>>
          [] OTHER -> <<a, FALSE>>

\* ALU_4b.compute(a, b, s, cin) -> <<result, carry-out>>
ALU_4b_compute(a0, b0, s0, cin) ==
    LET a == a0 % 16
        b == b0 % 16
        s == s0 % 8
    IN  CASE s = 0 -> <<a, FALSE>>
          [] s = 1 -> Adder_4b_compute(a, b, cin)
          [] s = 2 -> Adder_4b_compute(a, Not4(b), TRUE)
          [] s = 3 -> <<BitAnd(a, b), FALSE>>
          [] s = 4 -> <<BitOr(a, b), FALSE>>
          [] s = 5 -> <<FromBits(XOR_1b_compute(Bit(a, 0), Bit(b, 0)),
                                 XOR_1b_compute(Bit(a, 1), Bit(b, 1)),
                                 XOR_1b_compute(Bit(a, 2), Bit(b, 2)),
                                 XOR_1b_compute(Bit(a, 3), Bit(b, 3))), FALSE>>
          [] s = 6 -> <<Not4(a), FALSE>>
          [] OTHER -> <<0, FALSE>>

(***************************************************************************)
(* FSMState and the instruction word.                                      *)
(***************************************************************************)
FSMState == {"INIT", "FETCH", "LOAD", "EXECUTE", "STORE"}

\* FSMState.<name>.value
FSMValue(st) ==
    CASE st = "INIT" -> 0 [] st = "FETCH" -> 1 [] st = "LOAD" -> 2
      [] st = "EXECUTE" -> 3 [] st = "STORE" -> 4

\* instruction = (opcodes[mnemonic] << 8) | (op1 << 4) | op2
Encode(opcode, op1, op2) == opcode * 256 + op1 * 16 + op2

\* (instruction >> 8) & 0x7, (instruction >> 4) & 0xF, instruction & 0xF
DecodeOpcode(instruction) == (instruction \div 256) % 8
DecodeOp1(instruction) == (instruction \div 16) % 16
DecodeOp2(instruction) == instruction % 16

(***************************************************************************)
(* Processor of simulator_gui.py.  The field "defined" holds the names of  *)
(* the attributes that exist on the object and are not set by __init__:    *)
(* "program" (set by load_program) and "loaded" (loaded_op1, loaded_op2,   *)
(* loaded_opcode and loaded_mem, set together by the LOAD step).  Reading  *)
(* an attribute that does not exist raises AttributeError.  A log entry    *)
(* keeps the cycle number and the message without its formatted operands.  *)
(***************************************************************************)
EmptyWaveform ==
    [clk |-> <<>>, pc |-> <<>>, state |-> <<>>, alu_out |-> <<>>,
     ram_addr |-> <<>>, ram_data |-> <<>>]

\* Processor.__init__ of simulator_gui.py: self.program is not assigned
Processor_init ==
    [memory |-> [i \in 0..15 |-> 0],
     pc |-> 0,
     state |-> "INIT",
     instruction |-> 0,
     alu_result |-> 0,
     alu_cout |-> FALSE,
     cycle_count |-> 0,
     execution_log |-> <<>>,
     waveform_history |-> EmptyWaveform,
     program |-> <<>>,
     loaded_op1 |-> 0, loaded_op2 |-> 0, loaded_opcode |-> 0, loaded_mem |-> 0,
     defined |-> {}]

\* faulty variant of reset: self.alu_cout = False is missing
reset_keeps_cout(self) ==
    [self EXCEPT !.pc = 0,
                 !.state = "INIT",
                 !.instruction = 0,
                 !.alu_result = 0,
                 !.cycle_count = 0,
                 !.execution_log = <<>>,
                 !.waveform_history = EmptyWaveform]

\* Processor.reset: memory, program and the loaded_* attributes are not touched
reset(self) ==
    [self EXCEPT !.pc = 0,
                 !.state = "INIT",
                 !.instruction = 0,
                 !.alu_result = 0,
                 !.alu_cout = FALSE,
                 !.cycle_count = 0,
                 !.execution_log = <<>>,
                 !.waveform_history = EmptyWaveform]

\* faulty variant of load_program: it also resets the FSM state and the latched
\* instruction
load_program_resets(self, program) ==
    [self EXCEPT !.program = program,
                 !.pc = 0,
                 !.state = "INIT",
                 !.instruction = 0,
                 !.defined = @ \cup {"program"}]

\* Processor.load_program
load_program(self, program) ==
    [self EXCEPT !.program = program,
                 !.pc = 0,
                 !.defined = @ \cup {"program"}]

\* Processor.log
log(self, message) ==
    [self EXCEPT !.execution_log =
        Append(@, [cycle |-> self.cycle_count, msg |-> message])]

\* faulty variant of the head of clock_cycle: nothing is recorded for a step taken
\* in FETCH with the program exhausted
record_cycle_skip_halted(self) ==
    LET c == self.cycle_count + 1
    IN  IF /\ self.state = "FETCH"
           /\ "program" \in self.defined
           /\ self.pc >= Len(self.program)
        THEN [self EXCEPT !.cycle_count = c]
        ELSE [self EXCEPT
                 !.cycle_count = c,
                 !.waveform_history.clk = Append(@, c % 2),
                 !.waveform_history.pc = Append(@, self.pc),
                 !.waveform_history.state = Append(@, FSMValue(self.state)),
                 !.waveform_history.alu_out = Append(@, self.alu_result)]

\* the head of clock_cycle: cycle_count += 1 and the four waveform appends,
\* taken before the state's branch runs
record_cycle(self) ==
    LET c == self.cycle_count + 1
    IN  [self EXCEPT !.cycle_count = c,
                     !.waveform_history.clk = Append(@, c % 2),
                     !.waveform_history.pc = Append(@, self.pc),
                     !.waveform_history.state = Append(@, FSMValue(self.state)),
                     !.waveform_history.alu_out = Append(@, self.alu_result)]

\* faulty variant of the INIT branch: the FSM goes straight to LOAD
clock_cycle_INIT_toLOAD(self) ==
    [self |-> [log(self, "INIT") EXCEPT !.state = "LOAD"], ret |-> "True"]

\* branch FSMState.INIT
clock_cycle_INIT(self) ==
    [self |-> [log(self, "INIT") EXCEPT !.state = "FETCH"], ret |-> "True"]

\* faulty variant of the FETCH branch: self.pc += 1 is missing
clock_cycle_FETCH_nopc(self) ==
    IF "program" \notin self.defined
    THEN [self |-> self, ret |-> "AttributeError"]
    ELSE IF self.pc >= Len(self.program)
    THEN [self |-> log(self, "FETCH: Program complete"), ret |-> "False"]
    ELSE LET s1 == [self EXCEPT !.instruction = self.program[self.pc + 1]]
             s2 == log(s1, "FETCH")
         IN  [self |-> [s2 EXCEPT !.state = "LOAD"], ret |-> "True"]

\* faulty variant of the FETCH branch: an exhausted program wraps pc back to 0
clock_cycle_FETCH_wrap(self) ==
    IF "program" \notin self.defined
    THEN [self |-> self, ret |-> "AttributeError"]
    ELSE IF self.pc >= Len(self.program)
    THEN [self |-> [log(self, "FETCH: Program complete") EXCEPT !.pc = 0],
          ret |-> "False"]
    ELSE LET s1 == [self EXCEPT !.instruction = self.program[self.pc + 1]]
             s2 == log(s1, "FETCH")
         IN  [self |-> [s2 EXCEPT !.pc = self.pc + 1, !.state = "LOAD"],
              ret |-> "True"]

\* faulty variant of the FETCH branch: pc is incremented by the step that
\* reports the halt too
clock_cycle_FETCH_haltpc(self) ==
    IF "program" \notin self.defined
    THEN [self |-> self, ret |-> "AttributeError"]
    ELSE IF self.pc >= Len(self.program)
    THEN [self |-> [log(self, "FETCH: Program complete") EXCEPT
                       !.pc = self.pc + 1],
          ret |-> "False"]
    ELSE LET s1 == [self EXCEPT !.instruction = self.program[self.pc + 1]]
             s2 == log(s1, "FETCH")
         IN  [self |-> [s2 EXCEPT !.pc = self.pc + 1, !.state = "LOAD"],
              ret |-> "True"]

\* faulty variant of the FETCH branch: pc is advanced by two
clock_cycle_FETCH_skip(self) ==
    IF "program" \notin self.defined
    THEN [self |-> self, ret |-> "AttributeError"]
    ELSE IF self.pc >= Len(self.program)
    THEN [self |-> log(self, "FETCH: Program complete"), ret |-> "False"]
    ELSE LET s1 == [self EXCEPT !.instruction = self.program[self.pc + 1]]
             s2 == log(s1, "FETCH")
         IN  [self |-> [s2 EXCEPT !.pc = self.pc + 2, !.state = "LOAD"],
              ret |-> "True"]

\* branch FSMState.FETCH
clock_cycle_FETCH(self) ==
    IF "program" \notin self.defined
    THEN [self |-> self, ret |-> "AttributeError"]
    ELSE IF self.pc >= Len(self.program)
    THEN [self |-> log(self, "FETCH: Program complete"), ret |-> "False"]
    ELSE LET s1 == [self EXCEPT !.instruction = self.program[self.pc + 1]]
             s2 == log(s1, "FETCH")
         IN  [self |-> [s2 EXCEPT !.pc = self.pc + 1, !.state = "LOAD"],
              ret |-> "True"]

\* faulty variant of the LOAD branch: the immediate is written to memory[op1] at
\* once instead of being routed through the ALU
clock_cycle_LOAD_writes(self) ==
    LET opcode    == DecodeOpcode(self.instruction)
        op1       == DecodeOp1(self.instruction)
        op2       == DecodeOp2(self.instruction)
        mem_value == self.memory[op1]
        s1        == log(self, "LOAD")
    IN  [self |-> [s1 EXCEPT !.loaded_op1 = op1,
                             !.loaded_op2 = op2,
                             !.loaded_opcode = opcode,
                             !.loaded_mem = mem_value,
                             !.defined = @ \cup {"loaded"},
                             !.memory[op1] = op2,
                             !.waveform_history.ram_addr = Append(@, op1),
                             !.waveform_history.ram_data = Append(@, mem_value),
                             !.state = "EXECUTE"],
         ret |-> "True"]

\* faulty variant of the LOAD branch: memory is read at the immediate (op2)
clock_cycle_LOAD_atOp2(self) ==
    LET opcode    == DecodeOpcode(self.instruction)
        op1       == DecodeOp1(self.instruction)
        op2       == DecodeOp2(self.instruction)
        mem_value == self.memory[op2]
        s1        == log(self, "LOAD")
    IN  [self |-> [s1 EXCEPT !.loaded_op1 = op1,
                             !.loaded_op2 = op2,
                             !.loaded_opcode = opcode,
                             !.loaded_mem = mem_value,
                             !.defined = @ \cup {"loaded"},
                             !.waveform_history.ram_addr = Append(@, op1),
                             !.waveform_history.ram_data = Append(@, mem_value),
                             !.state = "EXECUTE"],
         ret |-> "True"]

\* branch FSMState.LOAD
clock_cycle_LOAD(self) ==
    LET opcode    == DecodeOpcode(self.instruction)
        op1       == DecodeOp1(self.instruction)
        op2       == DecodeOp2(self.instruction)
        mem_value == self.memory[op1]
        s1        == log(self, "LOAD")
    IN  [self |-> [s1 EXCEPT !.loaded_op1 = op1,
                             !.loaded_op2 = op2,
                             !.loaded_opcode = opcode,
                             !.loaded_mem = mem_value,
                             !.defined = @ \cup {"loaded"},
                             !.waveform_history.ram_addr = Append(@, op1),
                             !.waveform_history.ram_data = Append(@, mem_value),
                             !.state = "EXECUTE"],
         ret |-> "True"]

\* faulty variant of the routing: STO feeds the value read in LOAD to the ALU
ExecuteRouting_sto_mem(opcode, op2, mem_val) ==
    [alu_a   |-> mem_val,
     alu_b   |-> op2,
     alu_s   |-> IF opcode \in 0..6 THEN opcode ELSE 0,
     alu_cin |-> (opcode = 2)]

\* the opcode -> (alu_a, alu_b, alu_s, alu_cin) routing of the EXECUTE branch
ExecuteRouting(opcode, op2, mem_val) ==
    [alu_a   |-> IF opcode = 0 THEN op2 ELSE mem_val,
     alu_b   |-> op2,
     alu_s   |-> IF opcode \in 0..6 THEN opcode ELSE 0,
     alu_cin |-> (opcode = 2)]

\* branch FSMState.EXECUTE: op_name = [...7 names...][opcode] raises
\* IndexError for opcode 7, before anything of the branch is assigned
clock_cycle_EXECUTE(self) ==
    IF "loaded" \notin self.defined
    THEN [self |-> self, ret |-> "AttributeError"]
    ELSE IF self.loaded_opcode > 6
    THEN [self |-> self, ret |-> "IndexError"]
    ELSE LET r   == ExecuteRouting(self.loaded_opcode, self.loaded_op2,
                                   self.loaded_mem)
             alu == ALU_4b_compute(r.alu_a, r.alu_b, r.alu_s, r.alu_cin)
             s1  == [self EXCEPT !.alu_result = alu[1], !.alu_cout = alu[2]]
             s2  == log(s1, "EXECUTE")
         IN  [self |-> [s2 EXCEPT !.state = "STORE"], ret |-> "True"]

\* faulty variant of the STORE branch: the cycle restarts in INIT instead of FETCH
clock_cycle_STORE_toINIT(self) ==
    IF "loaded" \notin self.defined
    THEN [self |-> self, ret |-> "AttributeError"]
    ELSE LET s1 == [self EXCEPT !.memory[self.loaded_op1] = self.alu_result]
             s2 == log(s1, "STORE")
         IN  [self |-> [s2 EXCEPT
                          !.waveform_history.ram_addr = Append(@, self.loaded_op1),
                          !.waveform_history.ram_data = Append(@, self.alu_result),
                          !.state = "INIT"],
              ret |-> "True"]

\* faulty variant of the STORE branch: the result is written at the immediate
\* (loaded_op2) instead of the address (loaded_op1)
clock_cycle_STORE_atOp2(self) ==
    IF "loaded" \notin self.defined
    THEN [self |-> self, ret |-> "AttributeError"]
    ELSE LET s1 == [self EXCEPT !.memory[self.loaded_op2] = self.alu_result]
             s2 == log(s1, "STORE")
         IN  [self |-> [s2 EXCEPT
                          !.waveform_history.ram_addr = Append(@, self.loaded_op1),
                          !.waveform_history.ram_data = Append(@, self.alu_result),
                          !.state = "FETCH"],
              ret |-> "True"]

\* faulty variant of the STORE branch: the write is not recorded in ram_addr
\* and ram_data
clock_cycle_STORE_norecord(self) ==
    IF "loaded" \notin self.defined
    THEN [self |-> self, ret |-> "AttributeError"]
    ELSE LET s1 == [self EXCEPT !.memory[self.loaded_op1] = self.alu_result]
             s2 == log(s1, "STORE")
         IN  [self |-> [s2 EXCEPT !.state = "FETCH"], ret |-> "True"]

\* branch FSMState.STORE
clock_cycle_STORE(self) ==
    IF "loaded" \notin self.defined
    THEN [self |-> self, ret |-> "AttributeError"]
    ELSE LET s1 == [self EXCEPT !.memory[self.loaded_op1] = self.alu_result]
             s2 == log(s1, "STORE")
         IN  [self |-> [s2 EXCEPT
                          !.waveform_history.ram_addr = Append(@, self.loaded_op1),
                          !.waveform_history.ram_data = Append(@, self.alu_result),
                          !.state = "FETCH"],
              ret |-> "True"]

\* faulty variant of clock_cycle: the waveform record is appended after the
\* state's branch has run
clock_cycle_late(self) ==
    LET s == [self EXCEPT !.cycle_count = @ + 1]
        r == CASE s.state = "INIT"    -> clock_cycle_INIT(s)
               [] s.state = "FETCH"   -> clock_cycle_FETCH(s)
               [] s.state = "LOAD"    -> clock_cycle_LOAD(s)
               [] s.state = "EXECUTE" -> clock_cycle_EXECUTE(s)
               [] s.state = "STORE"   -> clock_cycle_STORE(s)
        t == r.self
    IN  [self |-> [t EXCEPT
                     !.waveform_history.clk = Append(@, t.cycle_count % 2),
                     !.waveform_history.pc = Append(@, t.pc),
                     !.waveform_history.state = Append(@, FSMValue(t.state)),
                     !.waveform_history.alu_out = Append(@, t.alu_result)],
         ret |-> r.ret]

\* Processor.clock_cycle of simulator_gui.py
clock_cycle(self) ==
    LET s == record_cycle(self)
    IN  CASE s.state = "INIT"    -> clock_cycle_INIT(s)
          [] s.state = "FETCH"   -> clock_cycle_FETCH(s)
          [] s.state = "LOAD"    -> clock_cycle_LOAD(s)
          [] s.state = "EXECUTE" -> clock_cycle_EXECUTE(s)
          [] s.state = "STORE"   -> clock_cycle_STORE(s)

\* the for loop of run_program: n iterations are left
RECURSIVE run_loop(_, _)
run_loop(self, n) ==
    IF n = 0 THEN [self |-> self, ret |-> "False"]
    ELSE LET r == clock_cycle(self)
         IN  IF r.ret = "False" THEN [self |-> r.self, ret |-> "True"]
             ELSE IF r.ret = "True" THEN run_loop(r.self, n - 1)
             ELSE r

\* faulty variant of run_program: the loop starts in INIT
run_program_fromINIT(self, max_cycles) ==
    run_loop(reset(self), max_cycles)

\* Processor.run_program of simulator_gui.py
run_program(self, max_cycles) ==
    run_loop([reset(self) EXCEPT !.state = "FETCH"], max_cycles)

(***************************************************************************)
(* Processor of simulator_gui_enhanced.py.  Its INIT, FETCH, LOAD and      *)
(* STORE branches, log and load_program have the text of simulator_gui.py  *)
(* and use the operators above; __init__, reset, the head of clock_cycle   *)
(* and the EXECUTE branch differ.                                          *)
(***************************************************************************)
\* Processor.__init__ of simulator_gui_enhanced.py: self.program = [] and
\* the waveform history has a seventh list, 'instruction'
Processor_init_enh ==
    [Processor_init EXCEPT
        !.waveform_history =
            [clk |-> <<>>, pc |-> <<>>, state |-> <<>>, alu_out |-> <<>>,
             ram_addr |-> <<>>, ram_data |-> <<>>, instruction |-> <<>>],
        !.defined = {"program"}]

\* Processor.reset: waveform_history = {k: [] for k in self.waveform_history}
reset_enh(self) ==
    [self EXCEPT !.pc = 0,
                 !.state = "INIT",
                 !.instruction = 0,
                 !.alu_result = 0,
                 !.alu_cout = FALSE,
                 !.cycle_count = 0,
                 !.execution_log = <<>>,
                 !.waveform_history = [k \in DOMAIN @ |-> <<>>]]

\* the head of clock_cycle: five waveform appends
record_cycle_enh(self) ==
    LET c == self.cycle_count + 1
    IN  [self EXCEPT !.cycle_count = c,
                     !.waveform_history.clk = Append(@, c % 2),
                     !.waveform_history.pc = Append(@, self.pc),
                     !.waveform_history.state = Append(@, FSMValue(self.state)),
                     !.waveform_history.alu_out = Append(@, self.alu_result),
                     !.waveform_history.instruction = Append(@, self.instruction)]

\* faulty variant of the routing of simulator_gui_enhanced.py: STO feeds the
\* value read in LOAD to the ALU
ExecuteRouting_enh_sto_mem(opcode, op2, mem_val) ==
    [alu_a   |-> mem_val,
     alu_b   |-> op2,
     alu_s   |-> IF opcode \in 0..6 THEN opcode ELSE 0,
     alu_cin |-> FALSE]

\* the routing of the EXECUTE branch: alu_cin stays False for every opcode
ExecuteRouting_enh(opcode, op2, mem_val) ==
    [alu_a   |-> IF opcode = 0 THEN op2 ELSE mem_val,
     alu_b   |-> op2,
     alu_s   |-> IF opcode \in 0..6 THEN opcode ELSE 0,
     alu_cin |-> FALSE]

\* branch FSMState.EXECUTE
clock_cycle_EXECUTE_enh(self) ==
    IF "loaded" \notin self.defined
    THEN [self |-> self, ret |-> "AttributeError"]
    ELSE IF self.loaded_opcode > 6
    THEN [self |-> self, ret |-> "IndexError"]
    ELSE LET r   == ExecuteRouting_enh(self.loaded_opcode, self.loaded_op2,
                                       self.loaded_mem)
             alu == ALU_4b_compute(r.alu_a, r.alu_b, r.alu_s, r.alu_cin)
             s1  == [self EXCEPT !.alu_result = alu[1], !.alu_cout = alu[2]]
             s2  == log(s1, "EXECUTE")
         IN  [self |-> [s2 EXCEPT !.state = "STORE"], ret |-> "True"]

\* Processor.clock_cycle of simulator_gui_enhanced.py
clock_cycle_enh(self) ==
    LET s == record_cycle_enh(self)
    IN  CASE s.state = "INIT"    -> clock_cycle_INIT(s)
          [] s.state = "FETCH"   -> clock_cycle_FETCH(s)
          [] s.state = "LOAD"    -> clock_cycle_LOAD(s)
          [] s.state = "EXECUTE" -> clock_cycle_EXECUTE_enh(s)
          [] s.state = "STORE"   -> clock_cycle_STORE(s)

\* the for loop of run_program: n iterations are left
RECURSIVE run_loop_enh(_, _)
run_loop_enh(self, n) ==
    IF n = 0 THEN [self |-> self, ret |-> "False"]
    ELSE LET r == clock_cycle_enh(self)
         IN  IF r.ret = "False" THEN [self |-> r.self, ret |-> "True"]
             ELSE IF r.ret = "True" THEN run_loop_enh(r.self, n - 1)
             ELSE r

\* Processor.run_program of simulator_gui_enhanced.py
run_program_enh(self, max_cycles) ==
    run_loop_enh([reset_enh(self) EXCEPT !.state = "FETCH"], max_cycles)

(***************************************************************************)
(* The callers.  Both objects receive the same calls: load_program, reset, *)
(* clock_cycle and run_program.                                            *)
(***************************************************************************)
\* faulty variant of DefaultProgram: the first two instructions swapped
DefaultProgram_swapped ==
    <<Encode(1, 4, 6), Encode(0, 4, 5), Encode(0, 1, 15), Encode(2, 1, 7),
      Encode(6, 15, 0)>>

\* the program of load_default_program:
\* STO 4,5; ADD 4,6; STO 1,F; SUB 1,7; NOT F,0
DefaultProgram ==
    <<Encode(0, 4, 5), Encode(1, 4, 6), Encode(0, 1, 15), Encode(2, 1, 7),
      Encode(6, 15, 0)>>

\* the programs handed to load_program: the prefixes of the default program
\* up to MaxProgLen instructions, a program whose only word carries the
\* undefined opcode 7, and the program ADD F,8, whose second run carries out
Programs ==
    {SubSeq(DefaultProgram, 1, n) : n \in 0..MaxProgLen}
        \cup {<<Encode(7, 4, 1)>>, <<Encode(1, 15, 8)>>}

\* number of clock_cycle calls run_program(max_cycles) makes on self
RECURSIVE LoopCalls(_, _)
LoopCalls(self, n) ==
    IF n = 0 THEN 0
    ELSE LET r == clock_cycle(self)
         IN  IF r.ret = "True" THEN 1 + LoopCalls(r.self, n - 1) ELSE 1

\* ProcessorSimulatorGUI.__init__ of either file: no animation runs and
\* root.after was not called yet
Gui_init == [animation_running |-> FALSE, after |-> <<>>]

Gui_init_enh == [animation_running |-> FALSE, after |-> <<>>]

Init ==
    /\ proc = Processor_init
    /\ enh = Processor_init_enh
    /\ op = "init"
    /\ arg = <<>>
    /\ ret = "None"
    /\ ret_enh = "None"
    /\ nsteps = 0
    /\ nloads = 0
    /\ gui = Gui_init
    /\ gui_enh = Gui_init_enh

ClockCycle ==
    /\ proc.cycle_count < MaxCycles
    /\ LET r == clock_cycle(proc)
           e == clock_cycle_enh(enh)
       IN  /\ proc' = r.self
           /\ ret' = r.ret
           /\ enh' = e.self
           /\ ret_enh' = e.ret
    /\ op' = "clock_cycle"
    /\ arg' = <<>>
    /\ nsteps' = nsteps + 1
    /\ UNCHANGED <<nloads, gui, gui_enh>>

Reset ==
    /\ proc' = reset(proc)
    /\ enh' = reset_enh(enh)
    /\ op' = "reset"
    /\ arg' = <<>>
    /\ ret' = "None"
    /\ ret_enh' = "None"
    /\ nsteps' = 0
    /\ nloads' = 0
    /\ UNCHANGED <<gui, gui_enh>>

LoadProgram ==
    \E p \in Programs :
        /\ nloads < MaxLoads
        /\ nloads' = nloads + 1
        /\ proc' = load_program(proc, p)
        /\ enh' = load_program(enh, p)
        /\ op' = "load_program"
        /\ arg' = p
        /\ ret' = "None"
        /\ ret_enh' = "None"
        /\ UNCHANGED <<nsteps, gui, gui_enh>>

RunProgram ==
    \E m \in 0..MaxCycles :
        /\ LET r == run_program(proc, m)
               e == run_program_enh(enh, m)
           IN  /\ proc' = r.self
               /\ ret' = r.ret
               /\ enh' = e.self
               /\ ret_enh' = e.ret
        /\ op' = "run_program"
        /\ arg' = <<m>>
        /\ nsteps' = LoopCalls([reset(proc) EXCEPT !.state = "FETCH"], m)
        /\ nloads' = 0
        /\ UNCHANGED <<gui, gui_enh>>

\* the calls the GUIs make on their processor: STEP and the animation call
\* clock_cycle, RESET calls reset, and load_program is called on start-up,
\* after a reset and after a compilation
Next == ClockCycle \/ Reset \/ LoadProgram

Spec == Init /\ [][Next]_vars

\* a caller that runs programs with run_program, which no GUI calls, in
\* place of single clock_cycle calls
NextRun == RunProgram \/ Reset \/ LoadProgram

SpecRun == Init /\ [][NextRun]_vars

(***************************************************************************)
(* The GUI of either file: __init__ constructs the Processor and calls     *)
(* load_default_program; the STEP button and the animation of RUN call     *)
(* clock_cycle; the RESET button calls reset_processor.                    *)
(***************************************************************************)
\* ProcessorSimulatorGUI.__init__
InitGui ==
    /\ proc = load_program(Processor_init, DefaultProgram)
    /\ enh = load_program(Processor_init_enh, DefaultProgram)
    /\ op = "load_program"
    /\ arg = DefaultProgram
    /\ ret = "None"
    /\ ret_enh = "None"
    /\ nsteps = 0
    /\ nloads = 1
    /\ gui = Gui_init
    /\ gui_enh = Gui_init_enh

\* ProcessorSimulatorGUI.step_cycle, and one round of animate_execution
StepCycle ==
    /\ proc.cycle_count < MaxGuiCycles
    /\ LET r == clock_cycle(proc)
           e == clock_cycle_enh(enh)
       IN  /\ proc' = r.self
           /\ ret' = r.ret
           /\ enh' = e.self
           /\ ret_enh' = e.ret
    /\ op' = "clock_cycle"
    /\ arg' = <<>>
    /\ nsteps' = nsteps + 1
    /\ UNCHANGED <<nloads, gui, gui_enh>>

\* ProcessorSimulatorGUI.reset_processor: processor.reset(), then
\* load_default_program()
ResetProcessor ==
    /\ nloads < MaxLoads
    /\ nloads' = nloads + 1
    /\ proc' = load_program(reset(proc), DefaultProgram)
    /\ enh' = load_program(reset_enh(enh), DefaultProgram)
    /\ op' = "load_program"
    /\ arg' = DefaultProgram
    /\ ret' = "None"
    /\ ret_enh' = "None"
    /\ nsteps' = 0
    /\ gui_enh' = [gui_enh EXCEPT !.animation_running = FALSE]
    /\ UNCHANGED gui

NextGui == StepCycle \/ ResetProcessor

SpecGui == InitGui /\ [][NextGui]_vars

(***************************************************************************)
(* The components called on their own, as run_tests of either GUI calls    *)
(* them: XOR_1b.compute, FA_1b.compute, Adder_4b.compute and               *)
(* ALU_4b.compute are static methods; the calls leave both Processor       *)
(* objects alone.  arg holds the arguments and ret, ret_enh what the       *)
(* method of either file returned (the four classes have the same text in  *)
(* both files).  The methods keep no state, so a behaviour makes one call, *)
(* on the GUI as __init__ left it.                                         *)
(***************************************************************************)
TestXOR ==
    \E a \in 0..1, b \in 0..1 :
        /\ op = "load_program"
        /\ op' = "XOR_1b.compute"
        /\ arg' = <<a, b>>
        /\ ret' = XOR_1b_compute(a, b)
        /\ ret_enh' = XOR_1b_compute(a, b)
        /\ UNCHANGED <<proc, enh, nsteps, nloads, gui, gui_enh>>

TestFA ==
    \E a \in 0..1, b \in 0..1, cin \in 0..1 :
        /\ op = "load_program"
        /\ op' = "FA_1b.compute"
        /\ arg' = <<a, b, cin>>
        /\ ret' = FA_1b_compute(a, b, cin)
        /\ ret_enh' = FA_1b_compute(a, b, cin)
        /\ UNCHANGED <<proc, enh, nsteps, nloads, gui, gui_enh>>

TestAdder ==
    \E a \in 0..15, b \in 0..15, cin \in BOOLEAN :
        /\ op = "load_program"
        /\ op' = "Adder_4b.compute"
        /\ arg' = <<a, b, cin>>
        /\ ret' = Adder_4b_compute(a, b, cin)
        /\ ret_enh' = Adder_4b_compute(a, b, cin)
        /\ UNCHANGED <<proc, enh, nsteps, nloads, gui, gui_enh>>

TestALU ==
    \E a \in 0..15, b \in 0..15, s \in 0..7, cin \in BOOLEAN :
        /\ op = "load_program"
        /\ op' = "ALU_4b.compute"
        /\ arg' = <<a, b, s, cin>>
        /\ ret' = ALU_4b_compute(a, b, s, cin)
        /\ ret_enh' = ALU_4b_compute(a, b, s, cin)
        /\ UNCHANGED <<proc, enh, nsteps, nloads, gui, gui_enh>>

NextTests == TestXOR \/ TestFA \/ TestAdder \/ TestALU

SpecTests == InitGui /\ [][NextTests]_vars

(***************************************************************************)
(* ProcessorSimulatorGUI.compile_assembly of simulator_gui.py, on an       *)
(* editor text of one line "mnemonic op1, op2".  simulator_gui_enhanced.py *)
(* has no assembler.                                                       *)
(***************************************************************************)
\* the ISA mapping: opcodes = {'STO': 0b000, ..., 'NOT': 0b110}
Opcodes ==
    [STO |-> 0, ADD |-> 1, SUB |-> 2, AND |-> 3, OR |-> 4, XOR |-> 5, NOT |-> 6]

\* the mnemonics typed: the seven of the ISA and one that is not
Mnemonics == DOMAIN Opcodes \cup {"NOP"}

\* faulty variant of AssembleLine: the operands are not masked
AssembleLine_nomask(mnemonic, n1, n2) ==
    Encode(Opcodes[mnemonic], n1, n2)

\* op1 = int(parts[1], 0) & 0xF; op2 = int(parts[2], 0) & 0xF;
\* instruction = (opcodes[mnemonic] << 8) | (op1 << 4) | op2
AssembleLine(mnemonic, n1, n2) ==
    Encode(Opcodes[mnemonic], n1 % 16, n2 % 16)

\* compile_assembly: an unknown mnemonic is logged and nothing is loaded;
\* otherwise load_program(program), then reset_processor().  One compilation
\* per behaviour, on the GUI as __init__ left it.
CompileAssembly ==
    \E mnemonic \in Mnemonics, n1 \in 0..MaxOperand, n2 \in 0..MaxOperand :
        /\ op = "load_program"
        /\ op' = "compile_assembly"
        /\ arg' = <<mnemonic, n1, n2>>
        /\ ret_enh' = "None"
        /\ UNCHANGED <<enh, gui, gui_enh>>
        /\ IF mnemonic \notin DOMAIN Opcodes
           THEN /\ ret' = "errors"
                /\ UNCHANGED <<proc, nsteps, nloads>>
           ELSE LET program == <<AssembleLine(mnemonic, n1, n2)>>
                IN  /\ ret' = program
                    /\ proc' = load_program(reset(load_program(proc, program)),
                                            DefaultProgram)
                    /\ nsteps' = 0
                    /\ nloads' = nloads + 2

SpecAsm == InitGui /\ [][CompileAssembly]_vars

(***************************************************************************)
(* Long programs: a new Processor after load_program of n times the        *)
(* instruction ADD 4,1, stepped from INIT to the halt.                     *)
(***************************************************************************)
LongProgram(n) == [i \in 1..n |-> Encode(1, 4, 1)]

InitLong ==
    \E n \in 0..MaxLongLen :
        /\ proc = load_program(Processor_init, LongProgram(n))
        /\ enh = load_program(Processor_init_enh, LongProgram(n))
        /\ op = "load_program"
        /\ arg = LongProgram(n)
        /\ ret = "None"
        /\ ret_enh = "None"
        /\ nsteps = 0
        /\ nloads = 1
        /\ gui = Gui_init
        /\ gui_enh = Gui_init_enh

SpecLong == InitLong /\ [][StepCycle]_vars

(***************************************************************************)
(* One instruction at a time: the object after reset() and                 *)
(* load_program(<<w>>) for every 11-bit word w, over a memory whose cell i *)
(* holds (i + k) mod 16, so that every cell takes every value as k ranges  *)
(* over 0..15.  Such a memory is what sixteen STO instructions leave; the  *)
(* last of them, STO F,v, is the one the loaded_* attributes still hold.   *)
(***************************************************************************)
ShiftedMemory(k) == [i \in 0..15 |-> (i + k) % 16]

AfterStores(self, k) ==
    [self EXCEPT !.memory = ShiftedMemory(k),
                 !.loaded_op1 = 15,
                 !.loaded_op2 = ShiftedMemory(k)[15],
                 !.loaded_opcode = 0,
                 !.loaded_mem = 0,
                 !.defined = @ \cup {"loaded"}]

InitInstr ==
    \E w \in 0..2047, k \in 0..15 :
        /\ proc = load_program(AfterStores(Processor_init, k), <<w>>)
        /\ enh = load_program(AfterStores(Processor_init_enh, k), <<w>>)
        /\ op = "load_program"
        /\ arg = <<w>>
        /\ ret = "None"
        /\ ret_enh = "None"
        /\ nsteps = 0
        /\ nloads = 1
        /\ gui = Gui_init
        /\ gui_enh = Gui_init_enh

SpecInstr == InitInstr /\ [][ClockCycle]_vars

(***************************************************************************)
(* Helpers of the properties.                                              *)
(***************************************************************************)
Last(q) == q[Len(q)]

\* the last n entries of q are the sequence t
EndsWith(q, t) ==
    /\ Len(q) >= Len(t)
    /\ SubSeq(q, Len(q) - Len(t) + 1, Len(q)) = t

IsPrefix(q, t) == Len(q) <= Len(t) /\ SubSeq(t, 1, Len(q)) = q

\* the object is in FETCH with an instruction left to fetch
CanFetch(self) ==
    /\ self.state = "FETCH"
    /\ "program" \in self.defined
    /\ self.pc < Len(self.program)

\* the word the next FETCH step latches
NextWord(self) == self.program[self.pc + 1]

(***************************************************************************)
(* C1: a clock_cycle call leaves the FSM state as it is or takes exactly   *)
(* one of INIT->FETCH, FETCH->LOAD (only with pc < len(program)),          *)
(* LOAD->EXECUTE, EXECUTE->STORE, STORE->FETCH; and the state becomes INIT *)
(* only by reset().                                                        *)
(***************************************************************************)
OneTransition(self, after) ==
    \/ after.state = self.state
    \/ self.state = "INIT" /\ after.state = "FETCH"
    \/ self.state = "FETCH" /\ after.state = "LOAD" /\ CanFetch(self)
    \/ self.state = "LOAD" /\ after.state = "EXECUTE"
    \/ self.state = "EXECUTE" /\ after.state = "STORE"
    \/ self.state = "STORE" /\ after.state = "FETCH"

C1_StepTransitions ==
    [][/\ op' = "clock_cycle" =>
            OneTransition(proc, proc') /\ OneTransition(enh, enh')
       /\ (proc.state # "INIT" /\ proc'.state = "INIT") => op' = "reset"
       /\ (enh.state # "INIT" /\ enh'.state = "INIT") => op' = "reset"]_vars

\* the five transitions were taken in a row from INIT
C1_Witness ==
    /\ op = "clock_cycle"
    /\ proc.state = "FETCH"
    /\ proc.waveform_history.state = <<0, 1, 2, 3, 4>>
    /\ enh.state = "FETCH"
    /\ enh.waveform_history.state = <<0, 1, 2, 3, 4>>

(***************************************************************************)
(* C2: from FETCH with pc < len(program) and an opcode in 0..6, four       *)
(* clock_cycle calls all return True, end in FETCH and leave pc one        *)
(* larger.                                                                 *)
(***************************************************************************)
FourSteps(self) ==
    LET r1 == clock_cycle(self)
        r2 == clock_cycle(r1.self)
        r3 == clock_cycle(r2.self)
        r4 == clock_cycle(r3.self)
    IN  [self |-> r4.self, rets |-> <<r1.ret, r2.ret, r3.ret, r4.ret>>,
         states |-> <<self.state, r1.self.state, r2.self.state, r3.self.state>>]

FourSteps_enh(self) ==
    LET r1 == clock_cycle_enh(self)
        r2 == clock_cycle_enh(r1.self)
        r3 == clock_cycle_enh(r2.self)
        r4 == clock_cycle_enh(r3.self)
    IN  [self |-> r4.self, rets |-> <<r1.ret, r2.ret, r3.ret, r4.ret>>,
         states |-> <<self.state, r1.self.state, r2.self.state, r3.self.state>>]

CycleReturnsToFetch(self, four) ==
    (CanFetch(self) /\ DecodeOpcode(NextWord(self)) \in 0..6) =>
        /\ four.rets = <<"True", "True", "True", "True">>
        /\ four.states = <<"FETCH", "LOAD", "EXECUTE", "STORE">>
        /\ four.self.state = "FETCH"
        /\ four.self.pc = self.pc + 1

C2_FourStepCycle ==
    /\ CycleReturnsToFetch(proc, FourSteps(proc))
    /\ CycleReturnsToFetch(enh, FourSteps_enh(enh))

\* four steps FETCH, LOAD, EXECUTE, STORE were just taken and a further
\* instruction is left to fetch
C2_Witness ==
    /\ op = "clock_cycle"
    /\ CanFetch(proc)
    /\ proc.pc = 1
    /\ EndsWith(proc.waveform_history.state, <<1, 2, 3, 4>>)
    /\ EndsWith(proc.waveform_history.pc, <<0, 1, 1, 1>>)
    /\ DecodeOpcode(NextWord(proc)) \in 0..6

(***************************************************************************)
(* C3: executing one instruction with an opcode in 0..6 (four clock_cycle  *)
(* calls from FETCH) leaves every memory cell other than the instruction's *)
(* addr as it was and leaves memory[addr] equal to the ALU result, so      *)
(* memory differs from its contents before the instruction at no address   *)
(* but addr.  As claimed, memory differs at exactly the address addr:      *)
(* C3_ExactlyOneAddressDiffers.                                            *)
(***************************************************************************)
DiffAddrs(m1, m2) == {a \in 0..15 : m1[a] # m2[a]}

WritesOnlyAddr(self, four) ==
    (CanFetch(self) /\ DecodeOpcode(NextWord(self)) \in 0..6) =>
        /\ DiffAddrs(self.memory, four.self.memory)
              \subseteq {DecodeOp1(NextWord(self))}
        /\ four.self.memory[DecodeOp1(NextWord(self))] = four.self.alu_result

C3_WritesOnlyAddr ==
    /\ WritesOnlyAddr(proc, FourSteps(proc))
    /\ WritesOnlyAddr(enh, FourSteps_enh(enh))

ExactlyOneAddressDiffers(self, four) ==
    (CanFetch(self) /\ DecodeOpcode(NextWord(self)) \in 0..6) =>
        DiffAddrs(self.memory, four.self.memory) = {DecodeOp1(NextWord(self))}

C3_ExactlyOneAddressDiffers ==
    /\ ExactlyOneAddressDiffers(proc, FourSteps(proc))
    /\ ExactlyOneAddressDiffers(enh, FourSteps_enh(enh))

\* an instruction was executed from INIT and wrote its result at its addr,
\* the cell holding what it held before: AND 3,F over memory[3] = 7
C3_Witness ==
    /\ op = "clock_cycle"
    /\ proc.state = "FETCH"
    /\ proc.waveform_history.state = <<0, 1, 2, 3, 4>>
    /\ proc.instruction = Encode(3, 3, 15)
    /\ proc.loaded_mem = 7
    /\ proc.memory = ShiftedMemory(4)
    /\ proc.memory[3] = proc.alu_result

(***************************************************************************)
(* C4: a clock_cycle call made in FETCH with pc >= len(program) returns    *)
(* False and leaves memory, pc and the FSM state as they were, so the      *)
(* object is exhausted again for the next call.                            *)
(***************************************************************************)
Exhausted(self) ==
    /\ self.state = "FETCH"
    /\ "program" \in self.defined
    /\ self.pc >= Len(self.program)

HaltKeeps(self, after, r) ==
    Exhausted(self) =>
        /\ r = "False"
        /\ after.memory = self.memory
        /\ after.pc = self.pc
        /\ after.state = "FETCH"
        /\ Exhausted(after)

C4_HaltIsStable ==
    [][op' = "clock_cycle" =>
          HaltKeeps(proc, proc', ret') /\ HaltKeeps(enh, enh', ret_enh')]_vars

\* two calls in a row were made in FETCH with the program exhausted
C4_Witness ==
    /\ op = "clock_cycle"
    /\ ret = "False"
    /\ ret_enh = "False"
    /\ Exhausted(proc)
    /\ EndsWith(proc.waveform_history.state, <<4, 1, 1>>)
    /\ EndsWith(proc.waveform_history.pc, <<1, 1, 1>>)
    /\ proc.memory[4] = 5

(***************************************************************************)
(* C5: memory changes only in a clock_cycle call made in STORE, and that   *)
(* call changes no cell but memory[loaded_op1], the address field of the   *)
(* latched instruction; clock_cycle in INIT, FETCH, LOAD and EXECUTE,      *)
(* reset() and load_program() leave all 16 cells as they were.             *)
(***************************************************************************)
MemoryFrame(self, after) ==
    /\ op' \in {"reset", "load_program"} => after.memory = self.memory
    /\ (op' = "clock_cycle" /\ self.state # "STORE") =>
            after.memory = self.memory
    /\ (op' = "clock_cycle" /\ self.state = "STORE") =>
            /\ self.loaded_op1 = DecodeOp1(self.instruction)
            /\ DiffAddrs(self.memory, after.memory) \subseteq {self.loaded_op1}

OneRecordPerCall(self, calls) ==
    /\ self.cycle_count = calls
    /\ Len(self.waveform_history.clk) = self.cycle_count
    /\ Len(self.waveform_history.pc) = self.cycle_count
    /\ Len(self.waveform_history.state) = self.cycle_count
    /\ Len(self.waveform_history.alu_out) = self.cycle_count

AppendsOne(self, after) ==
    /\ \A k \in DOMAIN self.waveform_history :
          IsPrefix(self.waveform_history[k], after.waveform_history[k])
    /\ \A k \in {"clk", "pc", "state", "alu_out"} :
          Len(after.waveform_history[k]) = Len(self.waveform_history[k]) + 1

C6_OneRecordPerStep ==
    /\ OneRecordPerCall(proc, nsteps) /\ OneRecordPerCall(enh, nsteps)
    /\ [][/\ OneRecordPerCall(proc', nsteps') /\ OneRecordPerCall(enh', nsteps')
          /\ op' = "clock_cycle" =>
                AppendsOne(proc, proc') /\ AppendsOne(enh, enh')]_vars

\* the step that reported the halt was recorded too
C6_Witness ==
    /\ op = "clock_cycle"
    /\ ret = "False"
    /\ proc.cycle_count = 6
    /\ proc.waveform_history.state = <<0, 1, 2, 3, 4, 1>>
    /\ Len(enh.waveform_history.instruction) = 6

(***************************************************************************)
(* C7: an instruction with opcode 7 runs through FETCH, LOAD, EXECUTE and  *)
(* STORE without an error being raised and the processor is back in FETCH  *)
(* for the next instruction.  The code raises IndexError in EXECUTE.       *)
(***************************************************************************)
UndefinedOpcodeCompletes(self, r) ==
    (op = "clock_cycle" /\ DecodeOpcode(self.instruction) = 7) =>
        r \in {"True", "False"}

C7_UndefinedOpcodeCompletes ==
    /\ UndefinedOpcodeCompletes(proc, ret)
    /\ UndefinedOpcodeCompletes(enh, ret_enh)

(***************************************************************************)
(* C8: reset() leaves the FSM in INIT, pc, the latched instruction, the    *)
(* ALU result and the cycle counter 0, the carry-out false, the execution  *)
(* log and every history list empty, and the Program as it was.            *)
(***************************************************************************)
ResetClears(self, after) ==
    /\ after.state = "INIT"
    /\ after.pc = 0
    /\ after.instruction = 0
    /\ after.alu_result = 0
    /\ after.alu_cout = FALSE
    /\ after.cycle_count = 0
    /\ after.execution_log = <<>>
    /\ DOMAIN after.waveform_history = DOMAIN self.waveform_history
    /\ \A k \in DOMAIN after.waveform_history : after.waveform_history[k] = <<>>
    /\ after.program = self.program
    /\ ("program" \in after.defined) = ("program" \in self.defined)

C8_ResetClears ==
    [][op' = "reset" => ResetClears(proc, proc') /\ ResetClears(enh, enh')]_vars

\* reset() was called on an object that had run a program
C8_Witness ==
    /\ op = "reset"
    /\ proc.state = "INIT"
    /\ proc.program = <<Encode(1, 15, 8)>>
    /\ proc.memory[15] = 8
    /\ proc.loaded_mem = 8
    /\ enh.program = proc.program

(***************************************************************************)
(* C9: after reset() all 16 memory cells are 0.  The code's reset() does   *)
(* not assign self.memory.                                                 *)
(***************************************************************************)
C9_ResetClearsMemory ==
    op = "reset" =>
        /\ \A a \in 0..15 : proc.memory[a] = 0
        /\ \A a \in 0..15 : enh.memory[a] = 0

(***************************************************************************)
(* C10: load_program(p) makes p the Program and pc 0 and changes nothing   *)
(* else of the object.                                                     *)
(***************************************************************************)
OnlyProgramAndPc(self, after, p) ==
    after = [self EXCEPT !.program = p, !.pc = 0,
                         !.defined = @ \cup {"program"}]

C10_LoadProgramFrame ==
    [][op' = "load_program" =>
          /\ OnlyProgramAndPc(proc, proc', arg')
          /\ OnlyProgramAndPc(enh, enh', arg')]_vars

\* load_program was called in the middle of an instruction
C10_Witness ==
    /\ op = "load_program"
    /\ proc.state = "EXECUTE"
    /\ proc.pc = 0
    /\ proc.program = arg
    /\ proc.program = <<Encode(0, 4, 5), Encode(1, 4, 6)>>
    /\ proc.instruction = Encode(0, 4, 5)
    /\ proc.cycle_count = 3

(***************************************************************************)
(* C11: run_program(max_cycles) makes at most max_cycles clock_cycle       *)
(* calls; for a Program of n instructions with opcodes in 0..6 it returns  *)
(* True exactly when max_cycles >= 4n + 1 and False otherwise, and on True *)
(* the FSM is in FETCH, pc = n and the cycle counter is 4n + 1.            *)
(***************************************************************************)
DefinedOpcodes(self) ==
    /\ "program" \in self.defined
    /\ \A i \in 1..Len(self.program) : DecodeOpcode(self.program[i]) \in 0..6

RunOutcome(self, r, max_cycles) ==
    /\ self.cycle_count <= max_cycles
    /\ DefinedOpcodes(self) =>
           LET n == Len(self.program)
           IN  /\ r \in {"True", "False"}
               /\ r = "True" <=> max_cycles >= 4 * n + 1
               /\ r = "True" =>
                      /\ self.state = "FETCH"
                      /\ self.pc = n
                      /\ self.cycle_count = 4 * n + 1

C11_RunProgramOutcome ==
    op = "run_program" =>
        /\ nsteps <= arg[1]
        /\ RunOutcome(proc, ret, arg[1])
        /\ RunOutcome(enh, ret_enh, arg[1])

\* a two-instruction program run with exactly the nine calls it needs
C11_Witness ==
    /\ op = "run_program"
    /\ arg = <<9>>
    /\ Len(proc.program) = 2
    /\ ret = "True"
    /\ ret_enh = "True"
    /\ proc.cycle_count = 9
    /\ proc.pc = 2
    /\ proc.memory[4] = 11

(***************************************************************************)
(* C12: the default program, stepped on a newly constructed processor from *)
(* INIT until clock_cycle reports the halt, ends with memory[4] = 0xB,     *)
(* memory[1] = 8 and memory[0xF] = 0xF, the values check_results expects.  *)
(***************************************************************************)
ExpectedResults(self) ==
    /\ self.memory[4] = 11
    /\ self.memory[1] = 8
    /\ self.memory[15] = 15

C12_DefaultProgramResults ==
    (nloads = 1 /\ op = "clock_cycle" /\ ret = "False") =>
        /\ ret_enh = "False"
        /\ ExpectedResults(proc)
        /\ ExpectedResults(enh)

\* the 22nd call on the newly constructed processor reports the halt
C12_Witness ==
    /\ nloads = 1
    /\ op = "clock_cycle"
    /\ ret = "False"
    /\ nsteps = 22
    /\ proc.cycle_count = 22
    /\ proc.pc = 5
    /\ proc.memory[4] = 11
    /\ enh.memory[1] = 8

(***************************************************************************)
(* C13: executing ADD addr,imm (four clock_cycle calls from FETCH) over    *)
(* m = memory[addr] leaves memory[addr] = (m + imm) mod 16 and the ALU     *)
(* carry-out true exactly when m + imm >= 16, for all addr, imm, m in      *)
(* 0..15.                                                                  *)
(***************************************************************************)
AddResult(self, four) ==
    (CanFetch(self) /\ DecodeOpcode(NextWord(self)) = 1) =>
        LET addr == DecodeOp1(NextWord(self))
            imm  == DecodeOp2(NextWord(self))
            m    == self.memory[addr]
        IN  /\ four.self.memory[addr] = (m + imm) % 16
            /\ four.self.alu_cout = (m + imm >= 16)

C13_AddWraps ==
    /\ AddResult(proc, FourSteps(proc))
    /\ AddResult(enh, FourSteps_enh(enh))

\* ADD A,1 was executed from INIT over memory[A] = F
C13_Witness ==
    /\ op = "clock_cycle"
    /\ proc.state = "FETCH"
    /\ proc.waveform_history.state = <<0, 1, 2, 3, 4>>
    /\ proc.instruction = Encode(1, 10, 1)
    /\ proc.loaded_mem = 15
    /\ proc.memory[10] = 0
    /\ proc.alu_cout = TRUE
    /\ enh.memory[10] = 0
    /\ enh.alu_cout = TRUE

(***************************************************************************)
(* C14: ALU_4b.compute(a, b, 0b010, cin) is (a - b) mod 16 for all a, b in *)
(* 0..15 and both values of cin, and executing SUB addr,imm on either      *)
(* engine leaves memory[addr] = (old memory[addr] - imm) mod 16.  The two  *)
(* engines pass different carry-ins: simulator_gui.py True,                *)
(* simulator_gui_enhanced.py False.                                        *)
(***************************************************************************)
SubResult(self, four) ==
    (CanFetch(self) /\ DecodeOpcode(NextWord(self)) = 2) =>
        LET addr == DecodeOp1(NextWord(self))
            imm  == DecodeOp2(NextWord(self))
            m    == self.memory[addr]
        IN  /\ four.self.memory[addr] = (m + 16 - imm) % 16
            /\ \A cin \in BOOLEAN :
                   ALU_4b_compute(m, imm, 2, cin)[1] = (m + 16 - imm) % 16

C14_SubIgnoresCarryIn ==
    /\ SubResult(proc, FourSteps(proc))
    /\ SubResult(enh, FourSteps_enh(enh))

\* SUB B,1 was executed from INIT over memory[B] = 0 on both engines
C14_Witness ==
    /\ op = "clock_cycle"
    /\ proc.state = "FETCH"
    /\ proc.waveform_history.state = <<0, 1, 2, 3, 4>>
    /\ proc.instruction = Encode(2, 11, 1)
    /\ proc.loaded_mem = 0
    /\ proc.memory[11] = 15
    /\ enh.instruction = Encode(2, 11, 1)
    /\ enh.loaded_mem = 0
    /\ enh.memory[11] = 15

(***************************************************************************)
(* C15: executing STO addr,imm leaves memory[addr] = imm whatever value    *)
(* memory[addr] held before, for all addr, imm in 0..15.                   *)
(***************************************************************************)
StoResult(self, four) ==
    (CanFetch(self) /\ DecodeOpcode(NextWord(self)) = 0) =>
        four.self.memory[DecodeOp1(NextWord(self))] = DecodeOp2(NextWord(self))

C15_StoReplaces ==
    /\ StoResult(proc, FourSteps(proc))
    /\ StoResult(enh, FourSteps_enh(enh))

\* STO 2,9 was executed from INIT over memory[2] = 7, which LOAD read
C15_Witness ==
    /\ op = "clock_cycle"
    /\ proc.state = "FETCH"
    /\ proc.waveform_history.state = <<0, 1, 2, 3, 4>>
    /\ proc.instruction = Encode(0, 2, 9)
    /\ proc.loaded_mem = 7
    /\ proc.waveform_history.ram_data = <<7, 9>>
    /\ proc.memory[2] = 9
    /\ enh.memory[2] = 9

(***************************************************************************)
(* C16: executing AND, OR, XOR addr,imm over m = memory[addr] leaves       *)
(* memory[addr] the bitwise AND, OR, XOR of m and imm; executing NOT       *)
(* addr,imm leaves memory[addr] = 15 - m for every imm; and the ALU        *)
(* carry-out is false after each of the four.                              *)
(***************************************************************************)
\* r is the 4-bit word whose bit i is f(bit i of x, bit i of y)
IsBitwise(r, x, y, f(_, _)) ==
    /\ r \in 0..15
    /\ \A i \in 0..3 : Bit(r, i) = f(Bit(x, i), Bit(y, i))

AndBit(x, y) == IF x = 1 /\ y = 1 THEN 1 ELSE 0
OrBit(x, y) == IF x = 1 \/ y = 1 THEN 1 ELSE 0
XorBit(x, y) == IF x # y THEN 1 ELSE 0

LogicResult(self, four) ==
    (CanFetch(self) /\ DecodeOpcode(NextWord(self)) \in 3..6) =>
        LET opcode == DecodeOpcode(NextWord(self))
            addr   == DecodeOp1(NextWord(self))
            imm    == DecodeOp2(NextWord(self))
            m      == self.memory[addr]
            r      == four.self.memory[addr]
        IN  /\ opcode = 3 => IsBitwise(r, m, imm, AndBit)
            /\ opcode = 4 => IsBitwise(r, m, imm, OrBit)
            /\ opcode = 5 => IsBitwise(r, m, imm, XorBit)
            /\ opcode = 6 => r = 15 - m
            /\ four.self.alu_cout = FALSE

C16_LogicOps ==
    /\ LogicResult(proc, FourSteps(proc))
    /\ LogicResult(enh, FourSteps_enh(enh))

\* XOR 6,A was executed from INIT over memory[6] = C
C16_Witness ==
    /\ op = "clock_cycle"
    /\ proc.state = "FETCH"
    /\ proc.waveform_history.state = <<0, 1, 2, 3, 4>>
    /\ proc.instruction = Encode(5, 6, 10)
    /\ proc.loaded_mem = 12
    /\ proc.memory[6] = 6
    /\ proc.alu_cout = FALSE
    /\ enh.memory[6] = 6

(***************************************************************************)
(* C17: a clock_cycle call made on an object whose last call reported the  *)
(* halt returns False again and leaves the FSM state, pc, memory, the      *)
(* latched instruction, the ALU result and the carry-out as they were; it  *)
(* increments the cycle counter and appends one entry to the execution log *)
(* and to each of the clk, pc, state and alu_out history lists.  As        *)
(* claimed, the call changes neither the cycle counter nor the history:    *)
(* C17_StepAfterHaltNoOp.                                                  *)
(***************************************************************************)
StepAfterHalt == op = "clock_cycle" /\ ret = "False" /\ op' = "clock_cycle"

MachineKept(self, after) ==
    /\ after.state = self.state
    /\ after.pc = self.pc
    /\ after.memory = self.memory
    /\ after.instruction = self.instruction
    /\ after.alu_result = self.alu_result
    /\ after.alu_cout = self.alu_cout

CycleRecorded(self, after) ==
    /\ after.cycle_count = self.cycle_count + 1
    /\ Len(after.execution_log) = Len(self.execution_log) + 1
    /\ \A k \in {"clk", "pc", "state", "alu_out"} :
           Len(after.waveform_history[k]) = Len(self.waveform_history[k]) + 1
    /\ after.waveform_history.ram_addr = self.waveform_history.ram_addr
    /\ after.waveform_history.ram_data = self.waveform_history.ram_data

C17_StepAfterHaltKeepsMachine ==
    [][StepAfterHalt =>
          /\ ret' = "False" /\ ret_enh' = "False"
          /\ MachineKept(proc, proc') /\ MachineKept(enh, enh')
          /\ CycleRecorded(proc, proc') /\ CycleRecorded(enh, enh')]_vars

C17_StepAfterHaltNoOp ==
    [][StepAfterHalt =>
          /\ ret' = "False"
          /\ MachineKept(proc, proc')
          /\ proc'.cycle_count = proc.cycle_count
          /\ proc'.waveform_history = proc.waveform_history]_vars

\* three calls in a row reported the halt after STO 4,5 had been executed
C17_Witness ==
    /\ op = "clock_cycle"
    /\ ret = "False"
    /\ ret_enh = "False"
    /\ proc.cycle_count = 8
    /\ proc.waveform_history.state = <<0, 1, 2, 3, 4, 1, 1, 1>>
    /\ proc.waveform_history.alu_out = <<0, 0, 0, 0, 5, 5, 5, 5>>
    /\ proc.instruction = Encode(0, 4, 5)
    /\ proc.memory[4] = 5

(***************************************************************************)
(* C18: run_program(max_cycles) called in any reachable state has the same *)
(* effect on the FSM state, pc, memory, the ALU outputs, the cycle counter *)
(* and the history as calling clock_cycle from that state until a call     *)
(* returns False or max_cycles calls were made.  The code's run_program    *)
(* first calls reset() and assigns FSMState.FETCH.                         *)
(***************************************************************************)
SameEffect(a, b) ==
    /\ a.state = b.state
    /\ a.pc = b.pc
    /\ a.memory = b.memory
    /\ a.alu_result = b.alu_result
    /\ a.alu_cout = b.alu_cout
    /\ a.cycle_count = b.cycle_count
    /\ a.waveform_history = b.waveform_history

C18_RunEqualsStepping ==
    [][op' = "run_program" =>
          /\ SameEffect(proc', run_loop(proc, arg'[1]).self)
          /\ SameEffect(enh', run_loop_enh(enh, arg'[1]).self)]_vars

(***************************************************************************)
(* C19: pc is a 4-bit word: 0 <= pc <= 15 in every reachable state, for a  *)
(* Program of any length, 16 or more instructions included.  The code's pc *)
(* is an unbounded integer that counts up to len(program).                 *)
(***************************************************************************)
C19_PcIsWord4 ==
    /\ proc.pc \in 0..15
    /\ enh.pc \in 0..15

(***************************************************************************)
(* C20: for a Program of instructions with opcodes in 0..6, in every       *)
(* reachable state memory has exactly the 16 cells 0..15, every cell and   *)
(* the latched ALU result are integers in 0..15, and every address read in *)
(* LOAD or written in STORE (recorded in ram_addr) is in 0..15.            *)
(***************************************************************************)
WordsInRange(self) ==
    DefinedOpcodes(self) =>
        /\ DOMAIN self.memory = 0..15
        /\ \A a \in 0..15 : self.memory[a] \in 0..15
        /\ self.alu_result \in 0..15
        /\ \A i \in 1..Len(self.waveform_history.ram_addr) :
               self.waveform_history.ram_addr[i] \in 0..15
        /\ "loaded" \in self.defined => self.loaded_op1 \in 0..15

C20_WordsInRange ==
    /\ WordsInRange(proc)
    /\ WordsInRange(enh)

\* ADD F,F was executed from INIT over memory[F] = F: the largest sum
C20_Witness ==
    /\ op = "clock_cycle"
    /\ proc.state = "FETCH"
    /\ proc.instruction = Encode(1, 15, 15)
    /\ proc.loaded_mem = 15
    /\ proc.waveform_history.ram_addr = <<15, 15>>
    /\ proc.alu_result = 14
    /\ proc.alu_cout = TRUE
    /\ proc.memory[15] = 14
    /\ enh.memory[15] = 14

(***************************************************************************)
(* C21: a clock_cycle call changes pc only when made in FETCH with         *)
(* pc < len(program), where pc grows by exactly 1; calls in INIT, LOAD,    *)
(* EXECUTE, STORE and the FETCH call that reports the halt leave pc as it  *)
(* was; pc never exceeds len(program).                                     *)
(***************************************************************************)
PcStep(self, after) ==
    after.pc = IF CanFetch(self) THEN self.pc + 1 ELSE self.pc

PcWithinProgram(self) ==
    "program" \in self.defined => self.pc <= Len(self.program)

C21_PcOnlyIncrements ==
    /\ PcWithinProgram(proc) /\ PcWithinProgram(enh)
    /\ [][/\ op' = "clock_cycle" => PcStep(proc, proc') /\ PcStep(enh, enh')
          /\ PcWithinProgram(proc') /\ PcWithinProgram(enh')]_vars

\* the second instruction was fetched: pc went from 1 to 2, after five calls
\* that left it alone
C21_Witness ==
    /\ op = "clock_cycle"
    /\ proc.state = "LOAD"
    /\ proc.pc = 2
    /\ proc.waveform_history.pc = <<0, 0, 1, 1, 1, 1>>
    /\ proc.waveform_history.state = <<0, 1, 2, 3, 4, 1>>
    /\ enh.pc = 2

(***************************************************************************)
(* C22: Adder_4b.compute(a, b, cin) returns the sum (a + b + cin) mod 16   *)
(* and a carry-out that is true exactly when a + b + cin >= 16, for all    *)
(* a, b in 0..15 and both carry-ins.                                       *)
(***************************************************************************)
AdderResult(r) ==
    LET total == arg[1] + arg[2] + (IF arg[3] THEN 1 ELSE 0)
    IN  /\ r[1] = total % 16
        /\ r[2] = (total >= 16)

C22_AdderSum ==
    op = "Adder_4b.compute" => AdderResult(ret) /\ AdderResult(ret_enh)

\* 7 + 8 with carry-in: the carry ripples through all four stages
C22_Witness ==
    /\ op = "Adder_4b.compute"
    /\ arg = <<7, 8, TRUE>>
    /\ ret = <<0, TRUE>>
    /\ ret_enh = <<0, TRUE>>

(***************************************************************************)
(* C23: FA_1b.compute(a, b, cin) is the 1-bit adder for all eight inputs:  *)
(* sum = (a + b + cin) mod 2, carry-out = 1 exactly when a + b + cin >= 2. *)
(***************************************************************************)
FullAdderRow(r) ==
    LET total == arg[1] + arg[2] + arg[3]
    IN  /\ r[1] = total % 2
        /\ r[2] = (IF total >= 2 THEN 1 ELSE 0)

C23_FullAdderTruthTable ==
    op = "FA_1b.compute" => FullAdderRow(ret) /\ FullAdderRow(ret_enh)

\* the row 0 + 1 + 1: sum 0, carry 1
C23_Witness ==
    /\ op = "FA_1b.compute"
    /\ arg = <<0, 1, 1>>
    /\ ret = <<0, 1>>
    /\ ret_enh = <<0, 1>>

(***************************************************************************)
(* C24: XOR_1b.compute(a, b) is (a AND NOT b) OR (NOT a AND b), that is 1  *)
(* exactly when the two bits differ, for all four bit pairs; and           *)
(* ALU_4b.compute with select 101, which applies it to each bit position,  *)
(* returns the bitwise XOR of a and b for all a, b in 0..15.               *)
(***************************************************************************)
XorGate(r) ==
    LET a == arg[1] = 1
        b == arg[2] = 1
    IN  (r = 1) <=> ((a /\ ~b) \/ (~a /\ b))

C24_XorBitwise ==
    /\ op = "XOR_1b.compute" =>
          /\ ret \in {0, 1} /\ ret_enh \in {0, 1}
          /\ XorGate(ret) /\ XorGate(ret_enh)
    /\ (op = "ALU_4b.compute" /\ arg[3] = 5) =>
          /\ IsBitwise(ret[1], arg[1], arg[2], XorBit)
          /\ IsBitwise(ret_enh[1], arg[1], arg[2], XorBit)

\* A xor 6 = C through the ALU
C24_Witness ==
    /\ op = "ALU_4b.compute"
    /\ arg = <<10, 6, 5, FALSE>>
    /\ ret = <<12, FALSE>>
    /\ ret_enh = <<12, FALSE>>

(***************************************************************************)
(* C25: for select 001 ALU_4b.compute hands the caller's carry-in to the   *)
(* adder: ALU_4b.compute(a, b, 0b001, cin) = Adder_4b.compute(a, b, cin);  *)
(* for select 010 the carry-in is forced True and the caller's cin changes *)
(* neither the result nor the carry-out.                                   *)
(***************************************************************************)
CarryInRouting(r) ==
    LET a   == arg[1]
        b   == arg[2]
        cin == arg[4]
    IN  /\ arg[3] = 1 =>
              /\ r = Adder_4b_compute(a, b, cin)
              /\ r[1] = (a + b + (IF cin THEN 1 ELSE 0)) % 16
        /\ arg[3] = 2 =>
              /\ r = ALU_4b_compute(a, b, 2, ~cin)
              /\ r = Adder_4b_compute(a, Not4(b), TRUE)

C25_CarryInRouting ==
    op = "ALU_4b.compute" => CarryInRouting(ret) /\ CarryInRouting(ret_enh)

\* F + 0 with carry-in True: the carry-in reaches the adder and carries out
C25_Witness ==
    /\ op = "ALU_4b.compute"
    /\ arg = <<15, 0, 1, TRUE>>
    /\ ret = <<0, TRUE>>
    /\ ret_enh = <<0, TRUE>>

(***************************************************************************)
(* C26: ALU_4b.compute returns, for every a, b in 0..15, every select code *)
(* in 0..7 and both carry-ins, a result in 0..15 and a carry-out, raising  *)
(* nothing and leaving the Processor objects as they were; for select 111  *)
(* it returns (0, False), and for selects 000, 011, 100, 101 and 110 the   *)
(* carry-out is False.                                                     *)
(***************************************************************************)
AluTotal(r) ==
    /\ r \in (0..15) \X BOOLEAN
    /\ arg[3] = 7 => r = <<0, FALSE>>
    /\ arg[3] \in {0, 3, 4, 5, 6} => r[2] = FALSE

C26_AluTotalAndPure ==
    op = "ALU_4b.compute" =>
        /\ AluTotal(ret) /\ AluTotal(ret_enh)
        /\ proc = load_program(Processor_init, DefaultProgram)
        /\ enh = load_program(Processor_init_enh, DefaultProgram)

\* the unused select code with non-zero operands and carry-in
C26_Witness ==
    /\ op = "ALU_4b.compute"
    /\ arg = <<9, 3, 7, TRUE>>
    /\ ret = <<0, FALSE>>
    /\ ret_enh = <<0, FALSE>>

(***************************************************************************)
(* C27: the word the assembler produces for an opcode in 0..6 and addr,    *)
(* imm in 0..15 is opcode * 256 + addr * 16 + imm, a value in 0..2047,     *)
(* which the LOAD step decodes into the same opcode, addr and imm; the     *)
(* assembler produces no word with opcode 7.                               *)
(***************************************************************************)
\* the object in EXECUTE after load_program(program) and the INIT, FETCH and
\* LOAD steps
AfterLoadStep(program) ==
    LET s0 == load_program(Processor_init, program)
    IN  clock_cycle(clock_cycle(clock_cycle(s0).self).self).self

EncodingRoundTrip(mnemonic, n1, n2, program) ==
    LET w == program[1]
        s == AfterLoadStep(program)
    IN  /\ Len(program) = 1
        /\ w \in 0..2047
        /\ DecodeOpcode(w) \in 0..6
        /\ (n1 \in 0..15 /\ n2 \in 0..15) =>
               w = Opcodes[mnemonic] * 256 + n1 * 16 + n2
        /\ s.state = "EXECUTE"
        /\ s.instruction = w
        /\ s.loaded_opcode = Opcodes[mnemonic]
        /\ s.loaded_op1 = n1 % 16
        /\ s.loaded_op2 = n2 % 16

C27_EncodingRoundTrip ==
    (op = "compile_assembly" /\ ret # "errors") =>
        EncodingRoundTrip(arg[1], arg[2], arg[3], ret)

\* NOT F,F: the largest word the assembler produces, 0x6FF
C27_Witness ==
    /\ op = "compile_assembly"
    /\ arg = <<"NOT", 15, 15>>
    /\ ret = <<1791>>
    /\ AfterLoadStep(ret).loaded_opcode = 6

(***************************************************************************)
(* C28: whenever the FSM is in EXECUTE or STORE, loaded_opcode, loaded_op1 *)
(* and loaded_op2 exist and are bits 10..8, 7..4 and 3..0 of the latched   *)
(* instruction, and loaded_mem is the value memory[loaded_op1] held when   *)
(* LOAD ran, which memory[loaded_op1] still holds; under every             *)
(* interleaving of clock_cycle, reset and load_program.                    *)
(***************************************************************************)
LatchedDecode(self) ==
    self.state \in {"EXECUTE", "STORE"} =>
        /\ "loaded" \in self.defined
        /\ self.loaded_opcode = DecodeOpcode(self.instruction)
        /\ self.loaded_op1 = DecodeOp1(self.instruction)
        /\ self.loaded_op2 = DecodeOp2(self.instruction)
        /\ self.waveform_history.ram_addr # <<>>
        /\ self.loaded_op1 = Last(self.waveform_history.ram_addr)
        /\ self.loaded_mem = Last(self.waveform_history.ram_data)
        /\ self.loaded_mem = self.memory[self.loaded_op1]

C28_LatchedDecode ==
    /\ LatchedDecode(proc)
    /\ LatchedDecode(enh)

\* ADD 4,6 is in STORE over memory[4] = 5, after a load_program call made
\* while it was in flight
C28_Witness ==
    /\ op = "load_program"
    /\ proc.state = "STORE"
    /\ proc.instruction = Encode(1, 4, 6)
    /\ proc.loaded_mem = 5
    /\ proc.memory[4] = 5
    /\ proc.alu_result = 11
    /\ proc.pc = 0
    /\ enh.state = "STORE"

(***************************************************************************)
(* C29: when load_program(q) is called while the FSM is in LOAD, EXECUTE   *)
(* or STORE, the instruction fetched from the previous Program still runs  *)
(* to completion: the remaining steps all succeed, its STORE writes its    *)
(* own result at its own address, as without the call, and the FETCH after *)
(* it latches q[0] when q is not empty.  An in-flight instruction with     *)
(* opcode 7 does not complete: EXECUTE raises IndexError (C7).             *)
(***************************************************************************)
\* the instruction in flight taken to the end of its STORE step: at most n
\* clock_cycle calls, until the FSM is in FETCH or a call fails
RECURSIVE Finish(_, _)
Finish(self, n) ==
    IF n = 0 \/ self.state = "FETCH" THEN [self |-> self, ret |-> "True"]
    ELSE LET r == clock_cycle(self)
         IN  IF r.ret = "True" THEN Finish(r.self, n - 1) ELSE r

RECURSIVE Finish_enh(_, _)
Finish_enh(self, n) ==
    IF n = 0 \/ self.state = "FETCH" THEN [self |-> self, ret |-> "True"]
    ELSE LET r == clock_cycle_enh(self)
         IN  IF r.ret = "True" THEN Finish_enh(r.self, n - 1) ELSE r

\* before, after: the object before and after load_program(q); fb, fa: both
\* taken to the end of the instruction; next: fa after one more call
InFlightCompletes(before, q, fb, fa, next, opcodes) ==
    (/\ before.state \in {"LOAD", "EXECUTE", "STORE"}
     /\ DecodeOpcode(before.instruction) \in opcodes) =>
        /\ fa.ret = "True"
        /\ fa.self.state = "FETCH"
        /\ fa.self.memory = fb.self.memory
        /\ fa.self.alu_result = fb.self.alu_result
        /\ fa.self.alu_cout = fb.self.alu_cout
        /\ fa.self.memory[DecodeOp1(before.instruction)] = fa.self.alu_result
        /\ q # <<>> => next.ret = "True" /\ next.self.instruction = q[1]

LoadKeepsInFlight(opcodes) ==
    op' = "load_program" =>
        /\ InFlightCompletes(proc, arg', Finish(proc, 3), Finish(proc', 3),
                             clock_cycle(Finish(proc', 3).self), opcodes)
        /\ InFlightCompletes(enh, arg', Finish_enh(enh, 3), Finish_enh(enh', 3),
                             clock_cycle_enh(Finish_enh(enh', 3).self), opcodes)

C29_LoadKeepsInFlight == [][LoadKeepsInFlight(0..7)]_vars

\* the same for in-flight instructions with a defined opcode
LoadKeepsInFlightDefined == [][LoadKeepsInFlight(0..6)]_vars

(***************************************************************************)
(* C30: a cycle record is a snapshot taken before the step's transition:   *)
(* the i-th entries of the state, pc and alu_out histories are the FSM     *)
(* state's ordinal, pc and the ALU result the object held when the i-th    *)
(* clock_cycle call since reset was made, and the i-th clk entry is        *)
(* i mod 2.                                                                *)
(***************************************************************************)
ClkAlternates(self) ==
    \A i \in 1..Len(self.waveform_history.clk) :
        self.waveform_history.clk[i] = i % 2

SnapshotBefore(self, after) ==
    LET h == after.waveform_history
        i == self.cycle_count + 1
    IN  /\ after.cycle_count = i
        /\ Len(h.state) = i /\ Len(h.pc) = i /\ Len(h.alu_out) = i
        /\ h.state[i] = FSMValue(self.state)
        /\ h.pc[i] = self.pc
        /\ h.alu_out[i] = self.alu_result
        /\ SubSeq(h.state, 1, i - 1) = self.waveform_history.state
        /\ SubSeq(h.pc, 1, i - 1) = self.waveform_history.pc
        /\ SubSeq(h.alu_out, 1, i - 1) = self.waveform_history.alu_out

C30_RecordIsSnapshot ==
    /\ ClkAlternates(proc) /\ ClkAlternates(enh)
    /\ [][/\ ClkAlternates(proc') /\ ClkAlternates(enh')
          /\ op' = "clock_cycle" =>
                /\ SnapshotBefore(proc, proc')
                /\ SnapshotBefore(enh, enh')
                /\ Last(enh'.waveform_history.instruction) = enh.instruction]_vars

\* STO 4,5 from reset: the first record is INIT, pc 0, ALU 0, and the result
\* 5 computed in EXECUTE first shows in the record of the STORE step
C30_Witness ==
    /\ op = "clock_cycle"
    /\ proc.cycle_count = 5
    /\ proc.waveform_history.state = <<0, 1, 2, 3, 4>>
    /\ proc.waveform_history.pc = <<0, 0, 1, 1, 1>>
    /\ proc.waveform_history.alu_out = <<0, 0, 0, 0, 5>>
    /\ proc.waveform_history.clk = <<1, 0, 1, 0, 1>>
    /\ enh.waveform_history.instruction = <<0, 0, 69, 69, 69>>

(***************************************************************************)
(* C31: ram_addr and ram_data are appended to only by LOAD and STORE       *)
(* steps: both lists have the length (LOAD steps + STORE steps since the   *)
(* last reset); LOAD appends the address and the value read from memory,   *)
(* STORE the address and the value written; the entries pair up, a read    *)
(* and then a write at the same address for each instruction.              *)
(***************************************************************************)
\* the LOAD and STORE steps recorded in the state history since reset
MemorySteps(self) ==
    Cardinality({i \in 1..Len(self.waveform_history.state) :
                    self.waveform_history.state[i] \in {2, 4}})

RamHistoryShape(self) ==
    LET h == self.waveform_history
    IN  /\ Len(h.ram_addr) = Len(h.ram_data)
        /\ Len(h.ram_addr) = MemorySteps(self)
        /\ \A i \in 1..Len(h.ram_addr) :
               (i % 2 = 0) => h.ram_addr[i] = h.ram_addr[i - 1]

RamRecord(self, after) ==
    LET h  == self.waveform_history
        h2 == after.waveform_history
    IN  CASE self.state = "LOAD" ->
               /\ h2.ram_addr = Append(h.ram_addr, DecodeOp1(self.instruction))
               /\ h2.ram_data =
                      Append(h.ram_data, self.memory[DecodeOp1(self.instruction)])
          [] self.state = "STORE" ->
               /\ h2.ram_addr = Append(h.ram_addr, self.loaded_op1)
               /\ h2.ram_data = Append(h.ram_data, self.alu_result)
               /\ after.memory[self.loaded_op1] = Last(h2.ram_data)
          [] OTHER ->
               /\ h2.ram_addr = h.ram_addr
               /\ h2.ram_data = h.ram_data

C31_RamRecords ==
    /\ RamHistoryShape(proc) /\ RamHistoryShape(enh)
    /\ [][/\ RamHistoryShape(proc') /\ RamHistoryShape(enh')
          /\ op' = "clock_cycle" =>
                RamRecord(proc, proc') /\ RamRecord(enh, enh')
          /\ op' = "load_program" =>
                /\ proc'.waveform_history = proc.waveform_history
                /\ enh'.waveform_history = enh.waveform_history]_vars

\* STO 4,5 and ADD 4,6 were executed: read 0, write 5, read 5, write B
C31_Witness ==
    /\ op = "clock_cycle"
    /\ proc.waveform_history.ram_addr = <<4, 4, 4, 4>>
    /\ proc.waveform_history.ram_data = <<0, 5, 5, 11>>
    /\ enh.waveform_history.ram_data = <<0, 5, 5, 11>>
    /\ proc.cycle_count = 9

(***************************************************************************)
(* C32: running a program to completion is repeatable: after reset (RESET  *)
(* then RUN in the GUI) a second run to completion ends with the memory of *)
(* the first, so every completed run of the default program leaves the     *)
(* values check_results expects.  reset() keeps the memory (C9), and the   *)
(* second NOT F,0 inverts the F the first one left.                        *)
(***************************************************************************)
C32_RunsRepeat ==
    (op = "clock_cycle" /\ ret = "False" /\ ret_enh = "False") =>
        ExpectedResults(proc) /\ ExpectedResults(enh)

(***************************************************************************)
(* C33: from INIT with a Program of n instructions with opcodes in 0..6    *)
(* and no reset or load_program in between, the first 4n + 1 clock_cycle   *)
(* calls return True and call 4n + 2 is the first to return False, with    *)
(* the FSM in FETCH and pc = n.                                            *)
(***************************************************************************)
\* k clock_cycle calls in a row: the object after them and what they returned
RECURSIVE StepN(_, _)
StepN(self, k) ==
    IF k = 0 THEN [self |-> self, rets |-> <<>>]
    ELSE LET r == clock_cycle(self)
             t == StepN(r.self, k - 1)
         IN  [self |-> t.self, rets |-> <<r.ret>> \o t.rets]

RECURSIVE StepN_enh(_, _)
StepN_enh(self, k) ==
    IF k = 0 THEN [self |-> self, rets |-> <<>>]
    ELSE LET r == clock_cycle_enh(self)
             t == StepN_enh(r.self, k - 1)
         IN  [self |-> t.self, rets |-> <<r.ret>> \o t.rets]

HaltsAfter(self, run) ==
    LET n == Len(self.program)
    IN  /\ \A i \in 1..(4 * n + 1) : run.rets[i] = "True"
        /\ run.rets[4 * n + 2] = "False"
        /\ run.self.state = "FETCH"
        /\ run.self.pc = n

C33_ProgramHalts ==
    /\ (proc.state = "INIT" /\ DefinedOpcodes(proc)) =>
           HaltsAfter(proc, StepN(proc, 4 * Len(proc.program) + 2))
    /\ (enh.state = "INIT" /\ DefinedOpcodes(enh)) =>
           HaltsAfter(enh, StepN_enh(enh, 4 * Len(enh.program) + 2))

\* the tenth call since reset is the first to report the halt of a program
\* of two instructions
C33_Witness ==
    /\ op = "clock_cycle"
    /\ ret = "False"
    /\ ret_enh = "False"
    /\ nsteps = 10
    /\ Len(proc.program) = 2
    /\ proc.pc = 2
    /\ proc.waveform_history.state = <<0, 1, 2, 3, 4, 1, 2, 3, 4, 1>>
    /\ proc.waveform_history.pc = <<0, 0, 1, 1, 1, 1, 2, 2, 2, 2>>

(***************************************************************************)
(* C34: the Processor of simulator_gui.py and the Processor of             *)
(* simulator_gui_enhanced.py, given the same Program and the same calls,   *)
(* agree after every call on the return value, the FSM state, pc, memory,  *)
(* the latched instruction, the ALU result and carry-out, the cycle        *)
(* counter and the clk, pc, state, alu_out, ram_addr and ram_data          *)
(* histories.                                                              *)
(***************************************************************************)
EnginesAgree ==
    /\ ret = ret_enh
    /\ proc.state = enh.state
    /\ proc.pc = enh.pc
    /\ proc.memory = enh.memory
    /\ proc.instruction = enh.instruction
    /\ proc.alu_result = enh.alu_result
    /\ proc.alu_cout = enh.alu_cout
    /\ proc.cycle_count = enh.cycle_count
    /\ proc.program = enh.program
    /\ \A k \in {"clk", "pc", "state", "alu_out", "ram_addr", "ram_data"} :
           proc.waveform_history[k] = enh.waveform_history[k]

C34_EnginesAgree ==
    "program" \in proc.defined => EnginesAgree

\* SUB 1,7 was executed on both engines, the first passing carry-in True to
\* the ALU and the second False, in a run that followed a reset
C34_Witness ==
    /\ op = "clock_cycle"
    /\ nloads = 2
    /\ proc.state = "FETCH"
    /\ proc.instruction = Encode(2, 1, 7)
    /\ enh.instruction = Encode(2, 1, 7)
    /\ proc.memory[1] = 8
    /\ enh.memory[1] = 8
    /\ proc.alu_cout = TRUE
    /\ enh.alu_cout = TRUE

(***************************************************************************)
(* C35: a newly constructed Processor on which load_program was never      *)
(* called behaves as one holding an empty Program, on both engines: the    *)
(* first clock_cycle call takes INIT to FETCH and returns True, the second *)
(* returns False and raises nothing.  Processor.__init__ of                *)
(* simulator_gui.py does not create self.program, and the FETCH branch     *)
(* raises AttributeError on len(self.program).                             *)
(***************************************************************************)
C35_NoProgramHalts ==
    (op = "clock_cycle" /\ "program" \notin proc.defined) =>
        /\ ret = (IF nsteps = 1 THEN "True" ELSE "False")
        /\ ret_enh = ret
        /\ proc.state = "FETCH"

(***************************************************************************)
(* C36: after compile_assembly succeeds (no errors), the Program held by   *)
(* the processor is the compiled program, the encoded instructions of the  *)
(* editor text in order, and the processor is in its reset state with      *)
(* PC = 0.  compile_assembly loads the compiled program and then calls     *)
(* reset_processor, whose load_default_program replaces it.                *)
(***************************************************************************)
C36_CompiledProgramLoaded ==
    (op = "compile_assembly" /\ arg[1] \in DOMAIN Opcodes) =>
        /\ proc.program = <<AssembleLine(arg[1], arg[2], arg[3])>>
        /\ proc.state = "INIT"
        /\ proc.pc = 0
        /\ proc.cycle_count = 0

(***************************************************************************)
(* The buttons and the timer of the GUIs.  RUN, STEP, RESET and TEST call  *)
(* run_program, step_cycle, reset_processor and run_tests; root.after      *)
(* hands a callback to the Tk timer, which calls it later from the event   *)
(* loop, never during another handler.  A handler is an operator on the    *)
(* processor p and the GUI state g; ret is what the clock_cycle call of    *)
(* the handler returned, "None" when it made none.                         *)
(***************************************************************************)
animate_execution(p, g) ==
    IF ~g.animation_running
    THEN [proc |-> p, gui |-> g, ret |-> "None"]
    ELSE LET r == clock_cycle(p)
         IN  [proc |-> r.self,
              ret  |-> r.ret,
              gui  |-> IF r.ret = "True"
                       THEN [g EXCEPT !.after = Append(@, "animate_execution")]
                       ELSE IF r.ret = "False"
                            THEN [g EXCEPT !.animation_running = FALSE]
                            ELSE g]

gui_run_program(p, g) ==
    animate_execution(p, [g EXCEPT !.animation_running = TRUE])

gui_step_cycle(p, g) ==
    LET r == clock_cycle(p)
    IN  [proc |-> r.self, gui |-> g, ret |-> r.ret]

gui_reset_processor(p, g) ==
    [proc |-> load_program(reset(p), DefaultProgram), gui |-> g, ret |-> "None"]

\* run_tests: the component tests change nothing; then reset_processor()
\* and run_program()
gui_run_tests(p, g) ==
    LET r == gui_reset_processor(p, g)
    IN  gui_run_program(r.proc, r.gui)

animate_execution_enh(p, g) ==
    IF ~g.animation_running
    THEN [proc |-> p, gui |-> g, ret |-> "None"]
    ELSE LET r == clock_cycle_enh(p)
         IN  [proc |-> r.self,
              ret  |-> r.ret,
              gui  |-> IF r.ret = "True"
                       THEN [g EXCEPT !.after = Append(@, "animate_execution")]
                       ELSE IF r.ret = "False"
                            THEN [g EXCEPT !.animation_running = FALSE]
                            ELSE g]

gui_run_program_enh(p, g) ==
    IF g.animation_running
    THEN [proc |-> p, gui |-> g, ret |-> "None"]
    ELSE animate_execution_enh(p, [g EXCEPT !.animation_running = TRUE])

gui_step_cycle_enh(p, g) ==
    IF g.animation_running
    THEN [proc |-> p, gui |-> g, ret |-> "None"]
    ELSE LET r == clock_cycle_enh(p)
         IN  [proc |-> r.self, gui |-> g, ret |-> r.ret]

gui_reset_processor_enh(p, g) ==
    [proc |-> load_program(reset_enh(p), DefaultProgram),
     gui  |-> [g EXCEPT !.animation_running = FALSE],
     ret  |-> "None"]

\* run_tests: reset_processor(), then root.after(500, self.run_program)
gui_run_tests_enh(p, g) ==
    LET r == gui_reset_processor_enh(p, g)
    IN  [r EXCEPT !.gui.after = Append(@, "run_program")]

\* the sequence q without its i-th element
Without(q, i) == SubSeq(q, 1, i - 1) \o SubSeq(q, i + 1, Len(q))

\* callbacks of the given name waiting in root.after
Pending(g, name) == Cardinality({i \in DOMAIN g.after : g.after[i] = name})

\* a handler of simulator_gui.py ran and left r
Handled(r, event, a) ==
    /\ proc' = r.proc
    /\ gui' = r.gui
    /\ ret' = r.ret
    /\ ret_enh' = "None"
    /\ op' = event
    /\ arg' = a
    /\ UNCHANGED <<enh, gui_enh>>

\* a handler of simulator_gui_enhanced.py ran and left r
Handled_enh(r, event, a) ==
    /\ enh' = r.proc
    /\ gui_enh' = r.gui
    /\ ret_enh' = r.ret
    /\ ret' = "None"
    /\ op' = event
    /\ arg' = a
    /\ UNCHANGED <<proc, gui>>

RunButton ==
    /\ proc.cycle_count < MaxAnimCycles
    /\ Len(gui.after) < MaxAfter
    /\ Handled(gui_run_program(proc, gui), "RUN", <<>>)
    /\ nsteps' = nsteps + 1
    /\ UNCHANGED nloads

StepButton ==
    /\ proc.cycle_count < MaxAnimCycles
    /\ Handled(gui_step_cycle(proc, gui), "STEP", <<>>)
    /\ nsteps' = nsteps + 1
    /\ UNCHANGED nloads

ResetButton ==
    /\ nloads < MaxLoads
    /\ Handled(gui_reset_processor(proc, gui), "RESET", <<>>)
    /\ nsteps' = 0
    /\ nloads' = nloads + 1

TestButton ==
    /\ nloads < MaxLoads
    /\ Len(gui.after) < MaxAfter
    /\ Handled(gui_run_tests(proc, gui), "TEST", <<>>)
    /\ nsteps' = 1
    /\ nloads' = nloads + 1

\* every callback of simulator_gui.py waits 300 ms: the timer calls them in
\* the order of the root.after calls
TimerFires ==
    /\ gui.after # <<>>
    /\ gui.animation_running => proc.cycle_count < MaxAnimCycles
    /\ LET r == animate_execution(proc, [gui EXCEPT !.after = Tail(@)])
       IN  /\ Handled(r, "after", <<Head(gui.after)>>)
           /\ nsteps' = IF r.ret = "None" THEN nsteps ELSE nsteps + 1
    /\ UNCHANGED nloads

NextAnim == RunButton \/ StepButton \/ ResetButton \/ TestButton \/ TimerFires

SpecAnim == InitGui /\ [][NextAnim]_vars

RunButton_enh ==
    /\ enh.cycle_count < MaxAnimCycles
    /\ Len(gui_enh.after) < MaxAfter
    /\ LET r == gui_run_program_enh(enh, gui_enh)
       IN  /\ Handled_enh(r, "RUN", <<>>)
           /\ nsteps' = IF r.ret = "None" THEN nsteps ELSE nsteps + 1
    /\ UNCHANGED nloads

StepButton_enh ==
    /\ enh.cycle_count < MaxAnimCycles
    /\ LET r == gui_step_cycle_enh(enh, gui_enh)
       IN  /\ Handled_enh(r, "STEP", <<>>)
           /\ nsteps' = IF r.ret = "None" THEN nsteps ELSE nsteps + 1
    /\ UNCHANGED nloads

ResetButton_enh ==
    /\ nloads < MaxLoads
    /\ Handled_enh(gui_reset_processor_enh(enh, gui_enh), "RESET", <<>>)
    /\ nsteps' = 0
    /\ nloads' = nloads + 1

TestButton_enh ==
    /\ nloads < MaxLoads
    /\ Len(gui_enh.after) < MaxAfter
    /\ Handled_enh(gui_run_tests_enh(enh, gui_enh), "TEST", <<>>)
    /\ nsteps' = 0
    /\ nloads' = nloads + 1

\* the callbacks of simulator_gui_enhanced.py wait animation_speed ms, which
\* the speed slider changes between 100 and 1000, or 500 ms (run_program
\* of run_tests): the timer may call any waiting callback next
TimerFires_enh ==
    \E i \in DOMAIN gui_enh.after :
        /\ enh.cycle_count < MaxAnimCycles
        /\ LET g == [gui_enh EXCEPT !.after = Without(@, i)]
               r == IF gui_enh.after[i] = "run_program"
                    THEN gui_run_program_enh(enh, g)
                    ELSE animate_execution_enh(enh, g)
           IN  /\ Handled_enh(r, "after", <<gui_enh.after[i]>>)
               /\ nsteps' = IF r.ret = "None" THEN nsteps ELSE nsteps + 1
        /\ UNCHANGED nloads

NextAnim_enh ==
    \/ RunButton_enh
    \/ StepButton_enh
    \/ ResetButton_enh
    \/ TestButton_enh
    \/ TimerFires_enh

SpecAnim_enh == InitGui /\ [][NextAnim_enh]_vars

(***************************************************************************)
(* C37: in the GUI of simulator_gui_enhanced.py at most one animation      *)
(* chain is active: under every interleaving of the RUN, STEP, RESET and   *)
(* TEST buttons with the timer callbacks, at most one animate_execution    *)
(* callback waits in root.after.  reset_processor clears                   *)
(* animation_running and leaves the waiting callback in place, so RUN,     *)
(* RESET, RUN leaves two.                                                  *)
(***************************************************************************)
C37_OneAnimationChain == Pending(gui_enh, "animate_execution") <= 1

(***************************************************************************)
(* C38: RESET stops a running animation: a callback that was handed to     *)
(* root.after before reset_processor and runs after it calls no            *)
(* clock_cycle, and the processor stays in INIT with cycle counter 0.      *)
(* reset_processor of simulator_gui.py leaves animation_running set.       *)
(***************************************************************************)
C38_ResetStopsAnimation ==
    [][(op = "RESET" /\ op' = "after") =>
           /\ ret' = "None"
           /\ proc'.state = "INIT"
           /\ proc'.cycle_count = 0]_vars

====
